---- MODULE Spec2Model ----
(***************************************************************************)
(* A model of src/eia_server.py: the MCP server that exposes the EIA v2    *)
(* HTTP API as tools.  Strings are TLA+ strings and are processed          *)
(* character by character, as Python does (str.strip, str.rstrip,          *)
(* str.endswith, f-strings, json.dumps, urlencode).  Python values (the    *)
(* JSON bodies, the parameter dictionaries, the failure mappings) are      *)
(* tagged records; a dict keeps its items in insertion order.              *)
(*                                                                         *)
(* The emoji and the accented letters of the program's messages are left   *)
(* out of the message literals; the ASCII text is kept.                    *)
(***************************************************************************)
EXTENDS Integers, Sequences, FiniteSets, TLC

VARIABLES
    EIA_API_KEY,   \* the configured credential; "" when the variable is unset or empty
    pc,            \* "idle" | "awaiting" (a GET is in flight) | "resuming" | "returned"
    tool,          \* the tool being run, "none" when idle
    args,          \* the arguments of the running tool
    step,          \* which transport call of the tool is in flight (1 for most tools)
    saved,         \* what find_wti_oil_data keeps between its transport calls
    request,       \* the GET in flight: url, query parameters, headers
    gets,          \* the GETs issued by the current make_eia_api_request call
    calls,         \* the route paths handed to make_eia_api_request by the running tool
    last,          \* how the last make_eia_api_request call ended
    log,           \* the log lines written while the tool runs
    result         \* what the tool handed back to the host

vars == <<EIA_API_KEY, pc, tool, args, step, saved, request, gets, calls, last, log, result>>

-----------------------------------------------------------------------------
(* Python strings *)

Char(s, i) == SubSeq(s, i, i)

CharsOf(s) == {Char(s, i) : i \in 1..Len(s)}

EndsWith(s, suffix) ==
    /\ Len(s) >= Len(suffix)
    /\ SubSeq(s, Len(s) - Len(suffix) + 1, Len(s)) = suffix

StartsWith(s, prefix) ==
    /\ Len(s) >= Len(prefix)
    /\ SubSeq(s, 1, Len(prefix)) = prefix

\* s.rstrip(chars): drops trailing characters while they are in the set chars
RECURSIVE RStrip(_, _)
RStrip(s, chars) ==
    IF Len(s) > 0 /\ Char(s, Len(s)) \in chars
    THEN RStrip(SubSeq(s, 1, Len(s) - 1), chars)
    ELSE s

RECURSIVE LStrip(_, _)
LStrip(s, chars) ==
    IF Len(s) > 0 /\ Char(s, 1) \in chars
    THEN LStrip(SubSeq(s, 2, Len(s)), chars)
    ELSE s

Strip(s, chars) == RStrip(LStrip(s, chars), chars)

Whitespace == {" ", "\t", "\n"}

\* sub in s
Contains(s, sub) ==
    \E i \in 1..(Len(s) - Len(sub) + 1) : SubSeq(s, i, i + Len(sub) - 1) = sub

\* min(a, b) and max(a, b)
Min(a, b) == IF a <= b THEN a ELSE b

Max(a, b) == IF a >= b THEN a ELSE b

\* s[:n]
Prefix(s, n) == IF Len(s) <= n THEN s ELSE SubSeq(s, 1, n)

\* "".join(parts); the recursion halves the sequence to stay shallow
RECURSIVE Concat(_)
Concat(parts) ==
    IF Len(parts) = 0 THEN ""
    ELSE IF Len(parts) = 1 THEN parts[1]
    ELSE LET h == Len(parts) \div 2
         IN  Concat(SubSeq(parts, 1, h)) \o Concat(SubSeq(parts, h + 1, Len(parts)))

\* the sequences of seqs, one after the other
RECURSIVE Flatten(_)
Flatten(seqs) ==
    IF Len(seqs) = 0 THEN <<>>
    ELSE IF Len(seqs) = 1 THEN seqs[1]
    ELSE LET h == Len(seqs) \div 2
         IN  Flatten(SubSeq(seqs, 1, h)) \o Flatten(SubSeq(seqs, h + 1, Len(seqs)))

\* sep.join(parts)
Join(parts, sep) ==
    IF Len(parts) = 0 THEN ""
    ELSE Concat([i \in 1..(2 * Len(parts) - 1) |->
                    IF i % 2 = 1 THEN parts[(i + 1) \div 2] ELSE sep])

\* the places where s.replace(old, ...) finds old: the matches taken from the
\* left, none overlapping an earlier one
RECURSIVE Replaced(_, _, _)
Replaced(s, old, i) ==
    /\ i + Len(old) - 1 <= Len(s)
    /\ SubSeq(s, i, i + Len(old) - 1) = old
    /\ \A j \in Max(1, i - Len(old) + 1)..(i - 1) : ~Replaced(s, old, j)

\* s.replace(old, new), old non-empty
Replace(s, old, new) ==
    Concat([i \in 1..Len(s) |->
               IF Replaced(s, old, i) THEN new
               ELSE IF \E j \in Max(1, i - Len(old) + 1)..(i - 1) : Replaced(s, old, j)
                    THEN ""
                    ELSE Char(s, i)])


-----------------------------------------------------------------------------
(* Python values *)

PyNone == [t |-> "none"]
PyStr(s) == [t |-> "str", s |-> s]
PyInt(n) == [t |-> "int", n |-> n]
PyList(l) == [t |-> "list", l |-> l]
\* items: a sequence of <<key, value>> pairs, in insertion order, keys distinct
PyDict(items) == [t |-> "dict", d |-> items]

IsNone(v) == v.t = "none"
IsStr(v) == v.t = "str"
IsInt(v) == v.t = "int"
IsList(v) == v.t = "list"
IsDict(v) == v.t = "dict"

\* bool(v)
Truthy(v) ==
    CASE v.t = "none" -> FALSE
      [] v.t = "str" -> v.s # ""
      [] v.t = "int" -> v.n # 0
      [] v.t = "list" -> Len(v.l) > 0
      [] v.t = "dict" -> Len(v.d) > 0
      [] OTHER -> TRUE

\* k in d
HasKey(d, k) == \E i \in 1..Len(d.d) : d.d[i][1] = k

\* d[k], for a key that is present
Item(d, k) == d.d[CHOOSE i \in 1..Len(d.d) : d.d[i][1] = k][2]

\* d.get(k, default)
Get(d, k, default) == IF HasKey(d, k) THEN Item(d, k) ELSE default

\* d.get(k)
Get0(d, k) == Get(d, k, PyNone)

Keys(d) == [i \in 1..Len(d.d) |-> d.d[i][1]]

\* d[k] = v: an existing key keeps its place, a new key goes last
DictSet(d, k, v) ==
    IF HasKey(d, k)
    THEN PyDict([i \in 1..Len(d.d) |-> IF d.d[i][1] = k THEN <<k, v>> ELSE d.d[i]])
    ELSE PyDict(Append(d.d, <<k, v>>))

\* d.update(e)
RECURSIVE DictUpdateItems(_, _)
DictUpdateItems(d, items) ==
    IF Len(items) = 0 THEN d
    ELSE DictUpdateItems(DictSet(d, items[1][1], items[1][2]), Tail(items))

DictUpdate(d, e) == DictUpdateItems(d, e.d)

-----------------------------------------------------------------------------
(* Rendering a value as text: json.dumps, repr, and the upstream's own      *)
(* compact JSON.                                                            *)

\* json.dumps(v, indent=2)
JsonIndent == [q |-> "\"", comma |-> ",", colon |-> ": ", indent |-> TRUE, none |-> "null"]
\* repr(v), str(v) of a container
ReprStyle == [q |-> "'", comma |-> ", ", colon |-> ": ", indent |-> FALSE, none |-> "None"]
\* the JSON text as the upstream sends it
WireStyle == [q |-> "\"", comma |-> ",", colon |-> ":", indent |-> FALSE, none |-> "null"]

Break(st, depth) ==
    IF st.indent THEN "\n" \o Concat([i \in 1..(2 * depth) |-> " "]) ELSE ""

RECURSIVE Render(_, _, _)
RECURSIVE RenderItems(_, _, _, _)

RenderItems(items, isDict, st, depth) ==
    LET one(x) == IF isDict
                  THEN st.q \o x[1] \o st.q \o st.colon \o Render(x[2], st, depth)
                  ELSE Render(x, st, depth)
    IN  Join([i \in 1..Len(items) |-> one(items[i])], st.comma \o Break(st, depth))

Render(v, st, depth) ==
    CASE v.t = "none" -> st.none
      [] v.t = "str" -> st.q \o v.s \o st.q
      [] v.t = "int" -> ToString(v.n)
      [] v.t = "list" ->
            IF Len(v.l) = 0 THEN "[]"
            ELSE "[" \o Break(st, depth + 1) \o RenderItems(v.l, FALSE, st, depth + 1)
                     \o Break(st, depth) \o "]"
      [] v.t = "dict" ->
            IF Len(v.d) = 0 THEN "{}"
            ELSE "{" \o Break(st, depth + 1) \o RenderItems(v.d, TRUE, st, depth + 1)
                     \o Break(st, depth) \o "}"

JsonDumps2(v) == Render(v, JsonIndent, 0)
Repr(v) == Render(v, ReprStyle, 0)
WireText(v) == Render(v, WireStyle, 0)

\* str(v), what an f-string puts for {v}
Str(v) == IF IsStr(v) THEN v.s ELSE Repr(v)

-----------------------------------------------------------------------------
(* urllib.parse.urlencode(params, doseq=True) *)

\* quote_plus on the characters the model's strings are made of
QuoteChar(c) ==
    CASE c = " " -> "+"
      [] c = "[" -> "%5B"
      [] c = "]" -> "%5D"
      [] c = "/" -> "%2F"
      [] c = ":" -> "%3A"
      [] c = "," -> "%2C"
      [] c = "'" -> "%27"
      [] OTHER -> c

QuotePlus(s) == Concat([i \in 1..Len(s) |-> QuoteChar(Char(s, i))])

\* the key=value pairs of one item: one per element of a list value
UrlPairsOf(k, v) ==
    IF IsList(v)
    THEN [i \in 1..Len(v.l) |-> QuotePlus(k) \o "=" \o QuotePlus(Str(v.l[i]))]
    ELSE <<QuotePlus(k) \o "=" \o QuotePlus(Str(v))>>

UrlPairs(items) == Flatten([i \in 1..Len(items) |-> UrlPairsOf(items[i][1], items[i][2])])

urlencode(params) == Join(UrlPairs(params.d), "&")

\* {k: v for k, v in d.items() if k != key}
WithoutKey(items, key) == SelectSeq(items, LAMBDA x : x[1] # key)

-----------------------------------------------------------------------------
(* The query encoders *)

EIA_API_BASE_URL == "https://api.eia.gov/v2"

EIA_HEADERS ==
    PyDict(<< <<"User-Agent", PyStr("Enhanced-EIA-MCP-Server/2.0 (mcp-enhanced@example.com)")>>,
              <<"Accept", PyStr("application/json")>> >>)

\* the key build_facets_params gives a facet: both branches of its isinstance
\* test assign params[f"facets[{key}]"]
FacetParamKey(key) == "facets[" \o key \o "]"

\* the value build_facets_params stores: the caller's value as it came, a list
\* or a bare scalar
FacetParamValue(values) == values

FacetItems(items) ==
    [i \in 1..Len(items) |-> <<FacetParamKey(items[i][1]), FacetParamValue(items[i][2])>>]

build_facets_params(facets) == DictUpdate(PyDict(<<>>), PyDict(FacetItems(facets.d)))

\* a helper that would leave the direction out
SortColumnOnly(sort_column, sort_direction) ==
    PyDict(<< <<"sort[0][column]", sort_column>> >>)

build_sort_params(sort_column, sort_direction) ==
    PyDict(<< <<"sort[0][column]", sort_column>>, <<"sort[0][direction]", sort_direction>> >>)

-----------------------------------------------------------------------------
(* What an HTTP exchange can come to.  A response carries its status, its   *)
(* text and what response.json() makes of the text (Unparseable when it     *)
(* raises); an exchange that fails raises an exception of class cls.        *)

Unparseable == [t |-> "unparseable"]

IsUnparseable(v) == v.t = "unparseable"

Response(status, json) ==
    [kind |-> "response", status |-> status, json |-> json, text |-> WireText(json),
     cls |-> "", msg |-> ""]

RawResponse(status, text) ==
    [kind |-> "response", status |-> status, json |-> Unparseable, text |-> text,
     cls |-> "", msg |-> ""]

Failed(cls, msg) ==
    [kind |-> "exception", status |-> 0, json |-> PyNone, text |-> "",
     cls |-> cls, msg |-> msg]

\* the exception classes of the model, each with its base classes
BasesOf(cls) ==
    CASE cls = "ConnectError" -> {"ConnectError", "RequestError", "Exception"}
      [] cls = "ReadTimeout" -> {"ReadTimeout", "RequestError", "Exception"}
      [] cls = "HTTPStatusError" -> {"HTTPStatusError", "Exception"}
      [] cls = "JSONDecodeError" -> {"JSONDecodeError", "ValueError", "Exception"}
      [] cls = "AttributeError" -> {"AttributeError", "Exception"}
      [] cls = "TypeError" -> {"TypeError", "Exception"}
      [] OTHER -> {cls, "Exception"}

IsInstance(cls, base) == base \in BasesOf(cls)

\* Response.is_success, which raise_for_status tests
IsSuccess(status) == status \div 100 = 2

\* type(v), as an f-string prints it
TypeRepr(v) ==
    CASE v.t = "none" -> "<class 'NoneType'>"
      [] v.t = "str" -> "<class 'str'>"
      [] v.t = "int" -> "<class 'int'>"
      [] v.t = "list" -> "<class 'list'>"
      [] v.t = "dict" -> "<class 'dict'>"

KeysRepr(v) == Repr(PyList([i \in 1..Len(v.d) |-> PyStr(v.d[i][1])]))

-----------------------------------------------------------------------------
(* make_eia_api_request *)

NoRequest == [url |-> "", params |-> PyNone, headers |-> PyNone, timeout |-> 0]

DefaultTimeout == 60

\* a transport without the check of line 80
CredentialNeverMissing == FALSE

\* `if not EIA_API_KEY`
CredentialMissing == EIA_API_KEY = ""

MissingKeyFailure ==
    PyDict(<< <<"error", PyStr("API_KEY_MISSING")>>,
              <<"message", PyStr("Chave da API EIA nao configurada")>> >>)

\* make_eia_api_request from its entry to the await of client.get: either it
\* returns at once (sent = FALSE) or a GET is issued
make_begin(route_path, params) ==
    IF CredentialMissing
    THEN [sent |-> FALSE, ret |-> MissingKeyFailure, request |-> NoRequest,
          lines |-> <<"ERROR EIA_API_KEY nao esta definida">>]
    ELSE LET clean_path == Strip(route_path, {"/"})
             full_url == EIA_API_BASE_URL \o "/" \o clean_path
             p == IF IsNone(params) THEN PyDict(<<>>) ELSE params
             params_with_key == DictSet(p, "api_key", PyStr(EIA_API_KEY))
             safe_params_for_log == PyDict(WithoutKey(params_with_key.d, "api_key"))
         IN  [sent |-> TRUE, ret |-> PyNone,
              request |-> [url |-> full_url, params |-> params_with_key,
                           headers |-> EIA_HEADERS, timeout |-> DefaultTimeout],
              lines |-> <<"INFO Requisicao EIA: " \o full_url,
                          "INFO Parametros (sem API Key): "
                              \o urlencode(safe_params_for_log)>>]

\* str(response.url): the request's url with its query string
ResponseUrl(req) == req.url \o "?" \o urlencode(req.params)

\* the body of the try statement, lines 105-123: what it raises ("" when it
\* returns), what it returns, what it logs
TryBlock(o) ==
    IF o.kind = "exception"
    THEN [raised |-> o.cls, msg |-> o.msg, value |-> PyNone, lines |-> <<>>]
    ELSE LET status_line == <<"INFO Status da resposta: " \o ToString(o.status)>>
             non200 == IF o.status # 200
                       THEN <<"ERROR Resposta nao-200: " \o Prefix(o.text, 500)>>
                       ELSE <<>>
         IN  IF ~IsSuccess(o.status)
             THEN [raised |-> "HTTPStatusError", msg |-> "", value |-> PyNone,
                   lines |-> status_line \o non200]
             ELSE IF IsUnparseable(o.json)
             THEN [raised |-> "JSONDecodeError",
                   msg |-> "Expecting value: line 1 column 1 (char 0)",
                   value |-> PyNone, lines |-> status_line \o non200]
             ELSE [raised |-> "", msg |-> "", value |-> o.json,
                   lines |-> status_line \o non200 \o
                       <<"INFO Estrutura da resposta: " \o
                           (IF IsDict(o.json) THEN KeysRepr(o.json) ELSE TypeRepr(o.json))>>]

\* a try statement without its last clause
ExceptClausesWithoutCatchAll == <<"HTTPStatusError", "RequestError">>

\* the except clauses of the try statement, in order (lines 125, 146, 150)
ExceptClauses == <<"HTTPStatusError", "RequestError", "Exception">>

\* the clause that catches an exception of class cls, "" when none does
CatchingClause(cls) ==
    IF \E i \in 1..Len(ExceptClauses) : IsInstance(cls, ExceptClauses[i])
    THEN ExceptClauses[CHOOSE i \in 1..Len(ExceptClauses) :
                           /\ IsInstance(cls, ExceptClauses[i])
                           /\ \A j \in 1..(i - 1) : ~IsInstance(cls, ExceptClauses[j])]
    ELSE ""

\* the error kind of the catch-all clause, line 152
UnexpectedKind == "UnexpectedError"

\* except httpx.HTTPStatusError, lines 125-144
OnHTTPStatusError(o, req) ==
    LET error_details ==
            PyDict(<< <<"status_code", PyInt(o.status)>>,
                      <<"response_text", PyStr(Prefix(o.text, 1000))>>,
                      <<"url", PyStr(IF EIA_API_KEY # ""
                                     THEN Replace(ResponseUrl(req), EIA_API_KEY, "***")
                                     ELSE ResponseUrl(req))>> >>)
        logged == <<"ERROR Erro HTTP EIA API: " \o Repr(error_details)>>
        kind == PyStr("HTTPStatusError: " \o ToString(o.status))
    IN  \* e.response.json() raises on an unparseable body, error_json.get
        \* raises on a body that is no object: the inner except catches both
        IF ~IsUnparseable(o.json) /\ IsDict(o.json)
        THEN [kind |-> "return", lines |-> logged,
              value |-> PyDict(<< <<"error", kind>>,
                                  <<"message", Get(o.json, "message", PyStr(o.text))>>,
                                  <<"details", o.json>> >>)]
        ELSE [kind |-> "return", lines |-> logged,
              value |-> PyDict(<< <<"error", kind>>,
                                  <<"message", PyStr(Prefix(o.text, 500))>> >>)]

\* make_eia_api_request from the end of the exchange to its return
make_end(o, req) ==
    LET t == TryBlock(o)
        clause == CatchingClause(t.raised)
    IN  IF t.raised = ""
        THEN [kind |-> "return", value |-> t.value, lines |-> t.lines]
        ELSE IF clause = "HTTPStatusError"
        THEN LET h == OnHTTPStatusError(o, req)
             IN  [kind |-> h.kind, value |-> h.value, lines |-> t.lines \o h.lines]
        ELSE IF clause = "RequestError"
        THEN [kind |-> "return",
              value |-> PyDict(<< <<"error", PyStr("RequestError")>>,
                                  <<"message", PyStr(t.msg)>> >>),
              lines |-> t.lines \o <<"ERROR Erro de requisicao EIA API: " \o t.msg>>]
        ELSE IF clause = "Exception"
        THEN [kind |-> "return",
              value |-> PyDict(<< <<"error", PyStr(UnexpectedKind)>>,
                                  <<"message", PyStr(t.msg)>> >>),
              lines |-> t.lines \o <<"ERROR Erro inesperado EIA API: " \o t.msg>>]
        ELSE [kind |-> "raise", value |-> PyStr(t.raised), lines |-> t.lines]

\* a transport that tries again after an exchange that failed
AfterExchangeRetrying(o) ==
    IF o.kind = "exception" \/ ~IsSuccess(o.status) \/ IsUnparseable(o.json)
    THEN "retry" ELSE "leave"

\* what make_eia_api_request does once an exchange has ended: every path of
\* lines 103-152 leaves the function, none issues another GET
AfterExchange(o) == "leave"

\* the GETs one call of make_eia_api_request may issue before the model stops
\* following it
MaxGets == 3

-----------------------------------------------------------------------------
(* What a tool does between two awaits: it hands a CallToolResult back,     *)
(* raises, or calls make_eia_api_request.                                   *)

NoSaved ==
    [spt_data |-> PyNone, wti_product_id |-> PyNone, price_element |-> "",
     steps_info |-> <<>>]

\* CallToolResult(is_error=..., content=[TextContent(type="text", text=...)])
ToolReturn(is_error, text, lines) ==
    [kind |-> "result", is_error |-> is_error, text |-> text, lines |-> lines,
     path |-> "", params |-> PyNone, saved |-> NoSaved]

\* an exception leaves the tool
ToolRaise(cls, lines) ==
    [kind |-> "raised", is_error |-> FALSE, text |-> cls, lines |-> lines,
     path |-> "", params |-> PyNone, saved |-> NoSaved]

\* await make_eia_api_request(path, params)
ToolRequest(path, params, lines, keep) ==
    [kind |-> "request", is_error |-> FALSE, text |-> "", lines |-> lines,
     path |-> path, params |-> params, saved |-> keep]

Pad3(n) == IF n < 10 THEN "00" \o ToString(n)
           ELSE IF n < 100 THEN "0" \o ToString(n) ELSE ToString(n)

\* f"{n:,}" for an int
RECURSIVE FormatComma(_)
FormatComma(n) ==
    IF n < 0 THEN "-" \o FormatComma(0 - n)
    ELSE IF n < 1000 THEN ToString(n)
    ELSE FormatComma(n \div 1000) \o "," \o Pad3(n % 1000)

Lines(parts) == Join(parts, "\n")

-----------------------------------------------------------------------------
(* get_eia_v2_route_data_enhanced *)

MaxLength == 5000

DisplayLimit == 100

\* a tool without the input validation
EndsInDataUnchecked(path) == TRUE

\* the input validation of line 242
EndsInData(path) == EndsWith(path, "/data") \/ EndsWith(path, "/data/")

\* line 249: rstrip takes a set of characters, not a suffix
NormalizeDataPath(path) == RStrip(RStrip(path, {"/"}), CharsOf("/data")) \o "/data"

\* parameters that would pass length and offset on as they were given
ParamsUnclamped(a) ==
    PyDict(<< <<"length", PyInt(a.length)>>, <<"offset", PyInt(a.offset)>> >>)

\* parameters that would carry `data` whatever data_elements is
ParamsAlwaysWithData(a) ==
    PyDict(<< <<"length", PyInt(Min(a.length, MaxLength))>>,
              <<"offset", PyInt(Max(a.offset, 0))>>,
              <<"data", a.data_elements>> >>)

\* lines 251-277
RouteDataParams(a) ==
    LET p0 == PyDict(<< <<"length", PyInt(Min(a.length, MaxLength))>>,
                        <<"offset", PyInt(Max(a.offset, 0))>> >>)
        p1 == IF Truthy(a.data_elements) /\ IsList(a.data_elements)
              THEN DictSet(p0, "data", a.data_elements) ELSE p0
        p2 == IF Truthy(a.frequency) THEN DictSet(p1, "frequency", a.frequency) ELSE p1
        p3 == IF Truthy(a.start_period) THEN DictSet(p2, "start", a.start_period) ELSE p2
        p4 == IF Truthy(a.end_period) THEN DictSet(p3, "end", a.end_period) ELSE p3
        p5 == IF Truthy(a.facets) /\ IsDict(a.facets)
              THEN DictUpdate(p4, build_facets_params(a.facets)) ELSE p4
        p6 == IF Truthy(a.sort_column) /\ Truthy(a.sort_direction)
              THEN DictUpdate(p5, build_sort_params(a.sort_column, a.sort_direction))
              ELSE p5
    IN  p6

\* lines 241-283: up to the await
route_data_begin(a) ==
    IF ~EndsInData(a.route_path_with_data_segment)
    THEN ToolReturn(TRUE,
            "O parametro 'route_path_with_data_segment' DEVE terminar em '/data' ou '/data/'. Caminho fornecido: "
                \o a.route_path_with_data_segment, <<>>)
    ELSE LET params == RouteDataParams(a)
         IN  ToolRequest(NormalizeDataPath(a.route_path_with_data_segment), params,
                 IF a.debug_mode
                 THEN <<"INFO Parametros construidos: " \o JsonDumps2(params)>>
                 ELSE <<>>,
                 NoSaved)

AllDicts(l) == \A i \in 1..Len(l) : IsDict(l[i])

\* one table row, line 370-371
TableRow(row, columns) ==
    "| " \o Join([i \in 1..Len(columns) |-> Str(Get(row, columns[i], PyStr("N/A")))], " | ")
         \o " |"

\* s * n
Repeat(s, n) == Concat([i \in 1..n |-> s])

\* lines 357-374; the rows are dicts
RouteDataTable(actual_data) ==
    LET columns == Keys(actual_data[1])
        display_limit == Min(DisplayLimit, Len(actual_data))
    IN  <<"| " \o Join(columns, " | ") \o " |", "|" \o Repeat("---|", Len(columns))>>
        \o [i \in 1..display_limit |-> TableRow(actual_data[i], columns)]
        \o (IF Len(actual_data) > display_limit
            THEN <<"... (mostrando primeiras " \o ToString(display_limit)
                       \o " linhas de " \o ToString(Len(actual_data)) \o ")">>
            ELSE <<>>)

\* line 308: the content is the `response` object when the body has one
RouteDataContent(data_response) == Get(data_response, "response", data_response)

\* lines 285-378: from the transport's return to the tool's
route_data_resume(a, data_response) ==
    LET clean_path == NormalizeDataPath(a.route_path_with_data_segment)
    IN
    IF ~Truthy(data_response)
    THEN ToolReturn(TRUE, "Falha na requisicao para a rota " \o clean_path, <<>>)
    ELSE IF ~IsDict(data_response) THEN ToolRaise("AttributeError", <<>>)
    ELSE IF Truthy(Get0(data_response, "error"))
    THEN ToolReturn(TRUE,
            Lines(<<"Erro ao recuperar dados para a rota " \o clean_path,
                    "Erro: " \o Str(Get0(data_response, "error")),
                    "Mensagem: " \o Str(Get(data_response, "message", PyStr("N/A")))>>
                  \o (IF Truthy(Get0(data_response, "details"))
                      THEN <<"Detalhes: " \o JsonDumps2(Item(data_response, "details"))>>
                      ELSE <<>>)),
            <<>>)
    ELSE
    LET response_content == RouteDataContent(data_response)
    IN
    IF ~IsDict(response_content) THEN ToolRaise("AttributeError", <<>>)
    ELSE
    LET actual_data == Get0(response_content, "data")
    IN
    IF ~Truthy(actual_data)
    THEN LET w1 == Get0(response_content, "warnings")
             warning_message == IF Truthy(w1) THEN w1 ELSE Get0(response_content, "warning")
         IN  ToolReturn(FALSE,
                Lines(<<"Nenhum dado encontrado para a rota " \o clean_path,
                        "Total de registros: "
                            \o Str(Get(response_content, "total", PyInt(0)))>>
                      \o (IF Truthy(warning_message)
                          THEN <<"Aviso da API: " \o Str(warning_message)>> ELSE <<>>)
                      \o (IF a.debug_mode
                          THEN <<"Resposta completa: "
                                     \o Prefix(JsonDumps2(data_response), 1000) \o "...">>
                          ELSE <<>>)),
                <<>>)
    \* len(actual_data), the default of .get('total', ...), is evaluated first
    ELSE IF IsInt(actual_data) THEN ToolRaise("TypeError", <<>>)
    ELSE
    LET len_data == IF IsList(actual_data) THEN Len(actual_data.l)
                    ELSE IF IsDict(actual_data) THEN Len(actual_data.d)
                    ELSE Len(actual_data.s)
        total_records == Get(response_content, "total", PyInt(len_data))
        returned_records == IF IsList(actual_data) THEN Len(actual_data.l) ELSE 1
    IN
    \* f"{total_records:,}" takes a number
    IF IsStr(total_records) THEN ToolRaise("ValueError", <<>>)
    ELSE IF ~IsInt(total_records) THEN ToolRaise("TypeError", <<>>)
    ELSE
    LET header_info ==
            <<"Dados recuperados com sucesso da rota: " \o clean_path,
              "Total de registros disponiveis: " \o FormatComma(total_records.n),
              "Registros retornados nesta pagina: " \o FormatComma(returned_records),
              "Offset: " \o FormatComma(a.offset) \o " | Limite: " \o FormatComma(a.length)>>
            \o (IF returned_records < total_records.n
                THEN <<"Registros restantes: "
                         \o FormatComma(total_records.n - (a.offset + returned_records))>>
                ELSE <<>>)
            \o <<"">>
    IN
    IF ~IsList(actual_data) THEN ToolReturn(FALSE, Lines(header_info), <<>>)
    \* actual_data[0].keys() and row.get need dicts
    ELSE IF ~IsDict(actual_data.l[1]) THEN ToolRaise("AttributeError", <<>>)
    ELSE IF ~AllDicts(SubSeq(actual_data.l, 1, Min(DisplayLimit, Len(actual_data.l))))
    THEN ToolRaise("AttributeError", <<>>)
    ELSE ToolReturn(FALSE, Lines(header_info \o RouteDataTable(actual_data.l)), <<>>)

-----------------------------------------------------------------------------
(* health_check and test_eia_connection *)

PORT == 8000

health_check_begin ==
    ToolReturn(FALSE,
        Lines(<<"Servidor MCP EIA Enhanced esta funcionando!",
                "URL Base da API: " \o EIA_API_BASE_URL,
                "API Key configurada: " \o (IF EIA_API_KEY # "" THEN "Sim" ELSE "Nao"),
                "Porta: " \o ToString(PORT)>>),
        <<>>)

\* lines 176-183
test_connection_begin ==
    IF EIA_API_KEY = ""
    THEN ToolReturn(TRUE,
            "EIA_API_KEY nao configurada. Configure a variavel de ambiente primeiro.", <<>>)
    ELSE ToolRequest("", PyNone, <<"INFO Testando conexao com a API da EIA...">>, NoSaved)

\* l[:n]
Take(l, n) == SubSeq(l, 1, Min(n, Len(l)))

AllStrs(l) == \A i \in 1..Len(l) : IsStr(l[i])

\* lines 185-220
test_connection_resume(response) ==
    IF ~Truthy(response)
    THEN ToolReturn(TRUE, "Falha ao conectar com a API da EIA", <<>>)
    ELSE IF ~IsDict(response) THEN ToolRaise("AttributeError", <<>>)
    ELSE IF Truthy(Get0(response, "error"))
    THEN ToolReturn(TRUE,
            "Erro na API da EIA: "
                \o Str(Get(response, "message", Get0(response, "error"))), <<>>)
    ELSE IF ~HasKey(response, "response")
    THEN ToolReturn(FALSE, "Conexao estabelecida, mas resposta em formato inesperado", <<>>)
    ELSE
    LET api_response == Item(response, "response")
    IN
    IF ~IsDict(api_response) THEN ToolRaise("AttributeError", <<>>)
    ELSE
    LET routes == Get(api_response, "routes", PyList(<<>>))
        routes_count == IF IsList(Get0(api_response, "routes"))
                        THEN Len(Get0(api_response, "routes").l) ELSE 0
        req == Get(response, "request", PyDict(<<>>))
    IN
    IF ~IsDict(req) THEN ToolRaise("AttributeError", <<>>)
    ELSE
    LET success_info ==
            <<"Conexao com API da EIA bem-sucedida!",
              "Rotas principais disponiveis: " \o ToString(routes_count),
              "Versao da API: " \o Str(Get(response, "apiVersion", PyStr("N/A"))),
              "ID da requisicao: " \o Str(Get(req, "command", PyStr("N/A")))>>
    IN
    IF routes_count = 0 THEN ToolReturn(FALSE, Lines(success_info), <<>>)
    ELSE
    LET first == Take(routes.l, 5)
    IN
    IF ~AllDicts(first) THEN ToolRaise("AttributeError", <<>>)
    ELSE
    LET route_names ==
            [i \in 1..Len(first) |->
                Get(first[i], "id", Get(first[i], "name", PyStr("N/A")))]
    IN
    IF ~AllStrs(route_names) THEN ToolRaise("TypeError", <<>>)
    ELSE ToolReturn(FALSE,
            Lines(success_info \o
                  <<"Primeiras rotas: "
                      \o Join([i \in 1..Len(route_names) |-> route_names[i].s], ", ")>>),
            <<>>)

-----------------------------------------------------------------------------
(* list_eia_v2_routes_enhanced *)

FacetValuesLimit == 20

\* line 389 and line 848
PathToList(segment_path) ==
    IF Truthy(segment_path) /\ Strip(segment_path.s, Whitespace) # ""
    THEN Strip(segment_path.s, {"/"})
    ELSE ""

\* lines 389-393
routes_enhanced_begin(a) ==
    LET path_to_list == PathToList(a.segment_path)
    IN  ToolRequest(path_to_list, PyDict(<<>>),
                    <<"INFO Listando rotas para: '" \o path_to_list \o "'">>, NoSaved)

\* the three shapes both listing tools tell apart, in the order they test them
\* a classification in which a route listing comes before the facet values
IsFacetValuesUnlessRoutes(obj) ==
    /\ HasKey(obj, "totalFacets")
    /\ IsList(Get0(obj, "facets"))
    /\ ~(IsList(Get0(obj, "routes")) /\ Truthy(Get0(obj, "routes")))

IsFacetValues(obj) == HasKey(obj, "totalFacets") /\ IsList(Get0(obj, "facets"))

IsRouteListing(obj) == IsList(Get0(obj, "routes")) /\ Truthy(Get0(obj, "routes"))

IsRouteMetadata(obj) == Truthy(Get0(obj, "id")) \/ Truthy(Get0(obj, "name"))

\* lines 419-438
EnhancedFacetValues(obj, path_to_list) ==
    LET facet_values == Get(obj, "facets", PyList(<<>>)).l
        shown == Take(facet_values, FacetValuesLimit)
        line(fv) ==
            LET name == Get(fv, "name", PyStr("N/A"))
                alias == Get(fv, "alias", PyStr(""))
                value_id == Get(fv, "id", PyStr("N/A"))
            IN  "  " \o Str(value_id) \o ": " \o Str(name)
                \o (IF Truthy(alias) /\ alias # name THEN " (" \o Str(alias) \o ")" ELSE "")
    IN  IF ~AllDicts(shown) THEN ToolRaise("AttributeError", <<>>)
        ELSE ToolReturn(FALSE,
                Lines(<<"Valores disponiveis para o facet: " \o path_to_list,
                        "Total de valores: " \o Str(Get0(obj, "totalFacets")),
                        "">>
                      \o [i \in 1..Len(shown) |-> line(shown[i])]
                      \o (IF Len(facet_values) > FacetValuesLimit
                          THEN <<"  ... e mais "
                                   \o ToString(Len(facet_values) - FacetValuesLimit)
                                   \o " valores">>
                          ELSE <<>>)),
                <<>>)

\* lines 441-472
EnhancedRouteListing(obj, path_to_list, show_examples) ==
    LET routes_list == Item(obj, "routes").l
        parent_info == Get(obj, "name", Get(obj, "id", PyStr("Nivel Superior")))
        entry(route) ==
            <<"  " \o Str(Get(route, "id", PyStr("N/A"))) \o ": "
                   \o Str(Get(route, "name", PyStr("N/A")))>>
            \o (IF Truthy(Get(route, "description", PyStr("")))
                THEN <<"     " \o Str(Item(route, "description"))>> ELSE <<>>)
        first_id == Get(routes_list[1], "id", PyStr(""))
    IN  IF ~AllDicts(routes_list) THEN ToolRaise("AttributeError", <<>>)
        \* path_to_list + '/' + id concatenates strings
        ELSE IF show_examples /\ path_to_list # "" /\ ~IsStr(first_id)
        THEN ToolRaise("TypeError", <<>>)
        ELSE ToolReturn(FALSE,
                Lines(<<"Rotas disponiveis em: " \o Str(parent_info),
                        "Total de sub-rotas: " \o ToString(Len(routes_list)),
                        "">>
                      \o (IF Truthy(Get0(obj, "description"))
                          THEN <<"Descricao: " \o Str(Item(obj, "description")), "">>
                          ELSE <<>>)
                      \o Flatten([i \in 1..Len(routes_list) |-> entry(routes_list[i])])
                      \o (IF show_examples
                          THEN <<"",
                                 "Exemplos de uso:",
                                 "   Para explorar '"
                                     \o Str(Get(routes_list[1], "id", PyStr("primeira-rota")))
                                     \o "':",
                                 "   list_eia_v2_routes_enhanced(segment_path='"
                                     \o (IF path_to_list # ""
                                         THEN path_to_list \o "/" \o Str(first_id)
                                         ELSE Str(first_id))
                                     \o "')">>
                          ELSE <<>>)),
                <<>>)

\* lines 475-568
EnhancedRouteMetadata(obj, path_to_list, show_examples) ==
    LET facets_metadata == Get(obj, "facets", PyList(<<>>))
        has_facets == Truthy(facets_metadata) /\ IsList(facets_metadata)
        data_columns == Get(obj, "data", PyDict(<<>>))
        has_columns == Truthy(data_columns) /\ IsDict(data_columns)
        frequencies == Get(obj, "frequency", PyList(<<>>))
        has_freq == Truthy(frequencies) /\ IsList(frequencies)
        facet_entry(facet) ==
            LET facet_id == Get(facet, "id", PyStr("N/A"))
                facet_path == IF path_to_list # ""
                              THEN path_to_list \o "/facet/" \o Str(facet_id)
                              ELSE "facet/" \o Str(facet_id)
            IN  <<"  " \o Str(facet_id) \o ": " \o Str(Get(facet, "name", PyStr("N/A")))>>
                \o (IF Truthy(Get(facet, "description", PyStr("")))
                    THEN <<"     " \o Str(Item(facet, "description"))>> ELSE <<>>)
                \o <<"     Ver valores: list_eia_v2_routes_enhanced(segment_path='"
                         \o facet_path \o "')", "">>
        column_entry(item) ==
            IF IsDict(item[2])
            THEN "  " \o item[1] \o ": "
                     \o Str(Get(item[2], "name", Get(item[2], "alias", PyStr(item[1]))))
                     \o " (" \o Str(Get(item[2], "units", PyStr("N/A"))) \o ")"
            ELSE "  " \o item[1] \o ": " \o Str(item[2])
        freq_entry(freq) ==
            LET freq_id == Get(freq, "id", PyStr("N/A"))
            IN  "  " \o Str(Get(freq, "query", freq_id)) \o ": "
                     \o Str(Get(freq, "description", PyStr("N/A")))
                     \o " (Formato: " \o Str(Get(freq, "format", PyStr("N/A"))) \o ")"
        data_path == IF path_to_list # "" THEN path_to_list \o "/data" ELSE "data"
    IN  IF has_facets /\ ~AllDicts(facets_metadata.l) THEN ToolRaise("AttributeError", <<>>)
        ELSE IF has_freq /\ ~AllDicts(frequencies.l) THEN ToolRaise("AttributeError", <<>>)
        ELSE ToolReturn(FALSE,
                Lines(<<"Metadados da rota: " \o Str(Get(obj, "id", PyStr(path_to_list))),
                        "Nome: " \o Str(Get(obj, "name", PyStr("N/A"))),
                        "">>
                      \o (IF Truthy(Get0(obj, "description"))
                          THEN <<"Descricao: " \o Str(Item(obj, "description")), "">>
                          ELSE <<>>)
                      \o (IF has_facets
                          THEN <<"Facets disponiveis (filtros):", "">>
                               \o Flatten([i \in 1..Len(facets_metadata.l) |->
                                              facet_entry(facets_metadata.l[i])])
                          ELSE <<>>)
                      \o (IF has_columns
                          THEN <<"Colunas de dados disponiveis:", "">>
                               \o [i \in 1..Len(data_columns.d) |->
                                      column_entry(data_columns.d[i])]
                          ELSE <<>>)
                      \o (IF has_freq
                          THEN <<"", "Frequencias disponiveis:", "">>
                               \o [i \in 1..Len(frequencies.l) |->
                                      freq_entry(frequencies.l[i])]
                          ELSE <<>>)
                      \o (IF Truthy(Get0(obj, "startPeriod")) \/ Truthy(Get0(obj, "endPeriod"))
                          THEN <<"",
                                 "Periodo de dados disponivel:",
                                 "  Inicio: " \o Str(Get(obj, "startPeriod", PyStr("N/A"))),
                                 "  Fim: " \o Str(Get(obj, "endPeriod", PyStr("N/A")))>>
                          ELSE <<>>)
                      \o (IF show_examples
                          THEN <<"",
                                 "Exemplo de uso para obter dados:",
                                 "   get_eia_v2_route_data_enhanced(",
                                 "       route_path_with_data_segment='" \o data_path \o "',",
                                 "       data_elements=['value'],  # ou outras colunas disponiveis",
                                 "       frequency='monthly',  # ou outra frequencia disponivel",
                                 "       start_period='2023-01',",
                                 "       end_period='2024-01'",
                                 "   )">>
                          ELSE <<>>)),
                <<>>)

\* lines 570-591: the tool hands the dump back without is_error
EnhancedUnrecognized(obj, path_to_list) ==
    ToolReturn(FALSE,
        Lines(<<"Resposta em formato nao reconhecido para: " \o path_to_list,
                "",
                "Estrutura da resposta:">>
              \o [i \in 1..Len(obj.d) |->
                     "  - " \o obj.d[i][1] \o ": " \o TypeRepr(obj.d[i][2])]
              \o <<"",
                   "Amostra da resposta:",
                   IF Len(Repr(obj)) > 500
                   THEN Prefix(JsonDumps2(obj), 500) \o "..."
                   ELSE JsonDumps2(obj)>>),
        <<>>)

\* line 408
EnhancedContent(raw_response) == Get(raw_response, "response", raw_response)

\* lines 395-591
routes_enhanced_resume(a, raw_response) ==
    LET path_to_list == PathToList(a.segment_path)
    IN
    IF ~Truthy(raw_response)
    THEN ToolReturn(TRUE, "Falha na requisicao para o caminho: '" \o path_to_list \o "'", <<>>)
    ELSE IF ~IsDict(raw_response) THEN ToolRaise("AttributeError", <<>>)
    ELSE IF Truthy(Get0(raw_response, "error"))
    THEN ToolReturn(TRUE,
            "Erro da API: "
                \o Str(Get(raw_response, "message", Get0(raw_response, "error"))), <<>>)
    ELSE
    LET response_obj == EnhancedContent(raw_response)
    IN
    IF ~IsDict(response_obj)
    THEN ToolReturn(TRUE, "Resposta em formato invalido para '" \o path_to_list \o "'", <<>>)
    ELSE IF IsFacetValues(response_obj)
    THEN EnhancedFacetValues(response_obj, path_to_list)
    ELSE IF IsRouteListing(response_obj)
    THEN EnhancedRouteListing(response_obj, path_to_list, a.show_examples)
    ELSE IF IsRouteMetadata(response_obj)
    THEN EnhancedRouteMetadata(response_obj, path_to_list, a.show_examples)
    ELSE EnhancedUnrecognized(response_obj, path_to_list)

-----------------------------------------------------------------------------
(* list_eia_v2_routes *)

\* `'request' in raw_response and 'response' in raw_response`, for a dict
HasEnvelope(raw_response) == HasKey(raw_response, "request") /\ HasKey(raw_response, "response")

\* lines 876-885
RoutesFacetValues(obj, path_to_list) ==
    LET facet_values_list == Get(obj, "facets", PyList(<<>>)).l
        line(fv) ==
            "  - ID (valor do facet): " \o Str(Get(fv, "id", PyStr("N/A")))
                \o ", Nome: " \o Str(Get(fv, "name", PyStr("N/A")))
                \o (IF Truthy(Get0(fv, "alias"))
                    THEN ", Alias: " \o Str(Get0(fv, "alias")) ELSE "")
    IN  IF ~AllDicts(facet_values_list) THEN ToolRaise("AttributeError", <<>>)
        ELSE ToolReturn(FALSE,
                Lines(<<"Valores disponiveis para o facet em '" \o path_to_list \o "':",
                        "  Total de Valores: " \o Str(Get0(obj, "totalFacets"))>>
                      \o (IF Len(facet_values_list) = 0
                          THEN <<"  Nenhum valor de facet retornado.">> ELSE <<>>)
                      \o [i \in 1..Len(facet_values_list) |-> line(facet_values_list[i])]),
                <<>>)

\* lines 888-903
RoutesRouteListing(obj, path_to_list, segment_path) ==
    LET routes_list == Item(obj, "routes").l
        parent_id == Get(obj, "id",
                         PyStr(IF path_to_list # "" THEN path_to_list ELSE "Nivel Raiz"))
        parent_name == Get(obj, "name", PyStr(""))
        top == ~Truthy(segment_path) \/ Strip(segment_path.s, Whitespace) = ""
        header_text ==
            IF top
            THEN "Rotas de Nivel Superior Disponiveis (sob '" \o Str(parent_id) \o "')"
            ELSE "Sub-Rotas para '" \o Str(parent_id) \o "' (" \o Str(parent_name) \o ")"
        entry(route_item) ==
            <<"  - ID da Sub-rota: " \o Str(Get(route_item, "id", PyStr("N/A")))
                  \o ", Nome: " \o Str(Get(route_item, "name", PyStr("N/A")))>>
            \o (IF Truthy(Get0(route_item, "description"))
                THEN <<"    Descricao: "
                         \o Str(Get(route_item, "description", PyStr("N/A")))>>
                ELSE <<>>)
    IN  IF ~AllDicts(routes_list) THEN ToolRaise("AttributeError", <<>>)
        ELSE ToolReturn(FALSE,
                Lines(<<header_text>>
                      \o (IF Truthy(Get0(obj, "description"))
                          THEN <<"  Descricao do Pai: " \o Str(Item(obj, "description"))>>
                          ELSE <<>>)
                      \o Flatten([i \in 1..Len(routes_list) |-> entry(routes_list[i])])),
                <<>>)

\* lines 906-961
RoutesRouteMetadata(obj, path_to_list) ==
    LET facets_metadata == Get(obj, "facets", PyList(<<>>))
        has_facets == Truthy(facets_metadata) /\ IsList(facets_metadata)
        data_columns_meta == Get(obj, "data", PyDict(<<>>))
        frequencies == Get(obj, "frequency", PyList(<<>>))
        has_freq == Truthy(frequencies) /\ IsList(frequencies)
        current_base_path == RStrip(path_to_list, {"/"})
        columns_title ==
            "\n  Colunas de Dados Disponiveis (para parametro 'data_elements' em get_eia_v2_route_data):"
        facet_entry(facet_meta) ==
            LET facet_id_val == Get(facet_meta, "id", PyStr("N/A"))
                explore_facet_path ==
                    IF current_base_path # ""
                    THEN current_base_path \o "/facet/" \o Str(facet_id_val)
                    ELSE "facet/" \o Str(facet_id_val)
            IN  <<"    - ID do Facet: " \o Str(facet_id_val)
                      \o ", Nome: " \o Str(Get(facet_meta, "name", PyStr("N/A")))
                      \o ", Descricao: " \o Str(Get(facet_meta, "description", PyStr("N/A"))),
                  "      (Para listar valores, use: list_eia_v2_routes com segment_path='"
                      \o explore_facet_path \o "')">>
        dict_column(item) ==
            IF IsDict(item[2])
            THEN "    - ID da Coluna: " \o item[1] \o ", Nome/Alias: "
                     \o Str(Get(item[2], "name", Get(item[2], "alias", PyStr("N/A"))))
                     \o ", Unidades: " \o Str(Get(item[2], "units", PyStr("N/A")))
            ELSE "    - ID da Coluna: " \o item[1]
                     \o " (detalhes em formato inesperado: " \o Str(item[2]) \o ")"
        list_column(item) ==
            IF IsDict(item) /\ HasKey(item, "id")
            THEN "    - ID da Coluna: " \o Str(Get0(item, "id"))
                     \o ", Nome: " \o Str(Get(item, "name", PyStr("N/A")))
                     \o ", Unidades: " \o Str(Get(item, "units", PyStr("N/A")))
            ELSE "    - Coluna: " \o Str(item)
        freq_entry(freq) ==
            LET id_val == Get(freq, "id", PyStr("N/A"))
            IN  "    - ID (para query): " \o Str(Get(freq, "query", id_val))
                    \o ", Nome: " \o Str(id_val)
                    \o ", Descricao: " \o Str(Get(freq, "description", PyStr("N/A")))
                    \o ", Formato do Periodo: " \o Str(Get(freq, "format", PyStr("N/A")))
    IN  IF has_facets /\ ~AllDicts(facets_metadata.l) THEN ToolRaise("AttributeError", <<>>)
        ELSE IF has_freq /\ ~AllDicts(frequencies.l) THEN ToolRaise("AttributeError", <<>>)
        ELSE ToolReturn(FALSE,
                Lines(<<"Metadados da Rota '" \o Str(Get(obj, "id", PyStr(path_to_list))) \o "':">>
                      \o (IF Truthy(Get0(obj, "name"))
                          THEN <<"  Nome: " \o Str(Item(obj, "name"))>> ELSE <<>>)
                      \o (IF Truthy(Get0(obj, "description"))
                          THEN <<"  Descricao: " \o Str(Item(obj, "description"))>> ELSE <<>>)
                      \o (IF has_facets
                          THEN <<"\n  Facets Disponiveis (filtros de dimensao):">>
                               \o Flatten([i \in 1..Len(facets_metadata.l) |->
                                              facet_entry(facets_metadata.l[i])])
                          ELSE <<>>)
                      \o (IF IsDict(data_columns_meta) /\ Truthy(data_columns_meta)
                          THEN <<columns_title>>
                               \o [i \in 1..Len(data_columns_meta.d) |->
                                      dict_column(data_columns_meta.d[i])]
                          ELSE IF IsList(data_columns_meta)
                          THEN <<columns_title>>
                               \o [i \in 1..Len(data_columns_meta.l) |->
                                      list_column(data_columns_meta.l[i])]
                          ELSE <<>>)
                      \o (IF has_freq
                          THEN <<"\n  Frequencias Disponiveis (para parametro 'frequency'):">>
                               \o [i \in 1..Len(frequencies.l) |->
                                      freq_entry(frequencies.l[i])]
                          ELSE <<>>)
                      \o (IF Truthy(Get0(obj, "startPeriod")) \/ Truthy(Get0(obj, "endPeriod"))
                          THEN <<"\n  Periodo de Dados Disponivel (aproximado):">>
                               \o (IF Truthy(Get0(obj, "startPeriod"))
                                   THEN <<"    Inicio: " \o Str(Item(obj, "startPeriod"))>>
                                   ELSE <<>>)
                               \o (IF Truthy(Get0(obj, "endPeriod"))
                                   THEN <<"    Fim: " \o Str(Item(obj, "endPeriod"))>>
                                   ELSE <<>>)
                          ELSE <<>>)
                      \o (IF Truthy(Get0(obj, "defaultDateFormat"))
                          THEN <<"  Formato de Data Padrao: "
                                   \o Str(Item(obj, "defaultDateFormat"))>>
                          ELSE <<>>)
                      \o (IF Truthy(Get0(obj, "defaultFrequency"))
                          THEN <<"  Frequencia Padrao: " \o Str(Item(obj, "defaultFrequency"))>>
                          ELSE <<>>)),
                <<>>)

\* lines 964-983
RoutesUnrecognized(obj, raw_response, path_to_list) ==
    LET e1 == Get0(obj, "error")
        e2 == IF Truthy(e1) THEN e1 ELSE Get0(raw_response, "error")
        api_error_data ==
            IF Truthy(e1) \/ Truthy(e2) THEN e2
            ELSE IF HasKey(raw_response, "response") /\ IsDict(Item(raw_response, "response"))
                 THEN Get0(Item(raw_response, "response"), "error")
                 ELSE e2
    IN  ToolReturn(TRUE,
            "Resposta da API da EIA para '" \o path_to_list
                \o "' nao corresponde a um formato esperado de metadados, sub-rotas ou valores de facet. "
                \o (IF Truthy(api_error_data)
                    THEN "Erro explicito da API EIA: " \o Str(api_error_data) \o ". " ELSE "")
                \o "Resposta completa recebida: " \o Repr(raw_response)
                \o (IF HasKey(raw_response, "request")
                    THEN " Comando ecoado pela API: " \o Str(Get0(raw_response, "request"))
                    ELSE ""),
            <<>>)

\* lines 848-850
routes_begin(a) == ToolRequest(PathToList(a.segment_path), PyDict(<<>>), <<>>, NoSaved)

\* lines 852-990
\* lines 859-862: the content is the `response` object only when the body has
\* a `request` key beside it
RoutesContent(raw_response) ==
    IF IsDict(raw_response) /\ HasEnvelope(raw_response)
    THEN Get0(raw_response, "response")
    ELSE raw_response

routes_resume(a, raw_response) ==
    LET path_to_list == PathToList(a.segment_path)
    IN
    IF ~Truthy(raw_response)
    THEN ToolReturn(TRUE,
            "Falha ao fazer requisicao a API da EIA para o caminho: '" \o path_to_list
                \o "'. Verifique os logs do servidor MCP.", <<>>)
    \* `'request' in raw_response` iterates a list, searches a str, and raises
    \* on an int
    ELSE IF IsInt(raw_response) THEN ToolRaise("TypeError", <<>>)
    \* ... and raw_response.get raises when the test passes on a str or a list
    ELSE IF IsStr(raw_response) /\ Contains(raw_response.s, "request")
                /\ Contains(raw_response.s, "response")
    THEN ToolRaise("AttributeError", <<>>)
    ELSE IF IsList(raw_response)
                /\ (\E i \in 1..Len(raw_response.l) : raw_response.l[i] = PyStr("request"))
                /\ (\E i \in 1..Len(raw_response.l) : raw_response.l[i] = PyStr("response"))
    THEN ToolRaise("AttributeError", <<>>)
    ELSE
    LET response_obj == RoutesContent(raw_response)
    IN
    IF ~IsDict(response_obj)
    THEN ToolReturn(TRUE,
            "Resposta da API para '" \o path_to_list
                \o "' nao e um objeto JSON valido ou esta vazia. Resposta: "
                \o Str(raw_response), <<>>)
    ELSE IF IsFacetValues(response_obj) THEN RoutesFacetValues(response_obj, path_to_list)
    ELSE IF IsRouteListing(response_obj)
    THEN RoutesRouteListing(response_obj, path_to_list, a.segment_path)
    ELSE IF IsRouteMetadata(response_obj) THEN RoutesRouteMetadata(response_obj, path_to_list)
    ELSE RoutesUnrecognized(response_obj, raw_response, path_to_list)

-----------------------------------------------------------------------------
(* get_eia_v2_series_id_data *)

\* lines 771-787
series_begin(a) ==
    LET p0 == PyDict(<<>>)
        p1 == IF Truthy(a.data_elements) THEN DictSet(p0, "data", a.data_elements) ELSE p0
        p2 == IF Truthy(a.frequency) THEN DictSet(p1, "frequency", a.frequency) ELSE p1
        p3 == IF Truthy(a.start_period) THEN DictSet(p2, "start", a.start_period) ELSE p2
        p4 == IF Truthy(a.end_period) THEN DictSet(p3, "end", a.end_period) ELSE p3
        p5 == IF Truthy(a.sort_column) /\ Truthy(a.sort_direction)
              THEN DictSet(DictSet(p4, "sort[0][column]", a.sort_column),
                           "sort[0][direction]", a.sort_direction)
              ELSE p4
    IN  ToolRequest("seriesid/" \o a.series_id, p5, <<>>, NoSaved)

\* lines 818-827; the rows are dicts
SeriesTable(actual_data) ==
    LET columns == Keys(actual_data[1])
    IN  <<"| " \o Join(columns, " | ") \o " |",
          "|" \o Join([i \in 1..Len(columns) |-> "---"], "---|") \o "|">>
        \o [i \in 1..Len(actual_data) |-> TableRow(actual_data[i], columns)]

\* line 797: without a `response` object the content is empty
SeriesContent(data_response) == Get(data_response, "response", PyDict(<<>>))

\* lines 789-837
series_resume(a, data_response) ==
    IF ~Truthy(data_response) \/ (IsDict(data_response) /\ Truthy(Get0(data_response, "error")))
    THEN LET head == "Falha ao recuperar dados para o Series ID " \o a.series_id \o "."
         IN  IF ~Truthy(data_response) THEN ToolReturn(TRUE, head, <<>>)
             ELSE IF Truthy(Get0(data_response, "message"))
             THEN ToolReturn(TRUE,
                     head \o " Detalhe: " \o Str(Item(data_response, "message")), <<>>)
             ELSE IF ~IsDict(Get(data_response, "response", PyDict(<<>>)))
             THEN ToolRaise("AttributeError", <<>>)
             ELSE IF Truthy(Get0(Get(data_response, "response", PyDict(<<>>)), "error"))
             THEN ToolReturn(TRUE,
                     head \o " Erro da API EIA: "
                          \o Str(Item(Item(data_response, "response"), "error")), <<>>)
             ELSE ToolReturn(TRUE, head, <<>>)
    \* data_response.get on a value that is no dict
    ELSE IF ~IsDict(data_response) THEN ToolRaise("AttributeError", <<>>)
    ELSE
    LET response_content == SeriesContent(data_response)
    IN
    IF ~IsDict(response_content) THEN ToolRaise("AttributeError", <<>>)
    ELSE
    LET actual_data == Get0(response_content, "data")
    IN
    IF ~Truthy(actual_data) /\ IsList(actual_data)
    THEN ToolReturn(FALSE,
            "Nenhum dado encontrado para o Series ID " \o a.series_id
                \o ". A API retornou uma lista vazia.", <<>>)
    ELSE IF ~Truthy(actual_data)
    THEN LET warning_message ==
                 Get(response_content, "warnings", Get0(response_content, "warning"))
         IN  ToolReturn(TRUE,
                "Nao foi possivel recuperar dados para o Series ID " \o a.series_id \o ". "
                    \o (IF Truthy(warning_message)
                        THEN "Aviso da API: " \o Str(warning_message) \o ". " ELSE "")
                    \o "Detalhe: "
                    \o Str(Get(response_content, "error", PyStr("Resposta inesperada da API.")))
                    \o ". Resposta completa: " \o Repr(data_response),
                <<>>)
    \* len(actual_data), then actual_data[0].keys()
    ELSE IF IsInt(actual_data) THEN ToolRaise("TypeError", <<>>)
    ELSE IF IsDict(actual_data) THEN ToolRaise("KeyError", <<>>)
    ELSE IF IsStr(actual_data) THEN ToolRaise("AttributeError", <<>>)
    ELSE IF ~AllDicts(actual_data.l) THEN ToolRaise("AttributeError", <<>>)
    ELSE ToolReturn(FALSE,
            Lines(<<"Total de registros correspondentes (pode ser paginado): "
                      \o Str(Get(response_content, "total", PyInt(Len(actual_data.l))))>>
                  \o SeriesTable(actual_data.l)),
            <<>>)

-----------------------------------------------------------------------------
(* find_wti_oil_data *)

LowerLetters == "abcdefghijklmnopqrstuvwxyz"
UpperLetters == "ABCDEFGHIJKLMNOPQRSTUVWXYZ"

MapChar(c, from, to) ==
    IF \E i \in 1..Len(from) : Char(from, i) = c
    THEN Char(to, CHOOSE i \in 1..Len(from) : Char(from, i) = c)
    ELSE c

MapChars(s, from, to) == Concat([i \in 1..Len(s) |-> MapChar(Char(s, i), from, to)])

\* s.upper(), s.lower()
Upper(s) == MapChars(s, LowerLetters, UpperLetters)
Lower(s) == MapChars(s, UpperLetters, LowerLetters)

WtiDataPath == "petroleum/pri/spt/data"

\* the routes of steps 1, 2, 3 and 5
WtiRoute(n) ==
    CASE n = 1 -> "petroleum"
      [] n = 2 -> "petroleum/pri"
      [] n = 3 -> "petroleum/pri/spt"
      [] n = 4 -> "petroleum/pri/spt/facet/product"

WtiStepOk(n) ==
    CASE n = 1 -> "Passo 1: Rota 'petroleum' acessada com sucesso"
      [] n = 2 -> "Passo 2: Rota 'petroleum/pri' (precos) acessada com sucesso"
      [] n = 3 -> "Passo 3: Rota 'petroleum/pri/spt' (precos spot) acessada com sucesso"

WtiStepError(n) ==
    IF n = 4 THEN "Erro ao acessar valores do facet 'product': "
    ELSE "Erro ao acessar rota '" \o WtiRoute(n) \o "': "

WtiStepLog(n) ==
    CASE n = 1 -> "INFO Passo 1: Verificando rota petroleum"
      [] n = 2 -> "INFO Passo 2: Verificando rota petroleum/pri"
      [] n = 3 -> "INFO Passo 3: Verificando rota petroleum/pri/spt"
      [] n = 4 -> "INFO Passo 5: Verificando valores do facet product para WTI"

\* a test that would let a mapping with `error` pass
WtiCheckEmptyOnly(r) ==
    IF ~IsDict(r) THEN "raise"
    ELSE IF ~Truthy(r) THEN "error"
    ELSE "ok"

\* `if not r or r.get("error")` and the message it builds with r.get('message'):
\* "raise", "error" or "ok"
WtiCheck(r) ==
    IF ~IsDict(r) THEN "raise"
    ELSE IF ~Truthy(r) \/ Truthy(Get0(r, "error")) THEN "error"
    ELSE "ok"

\* `for x in v`: the items of a list, the keys of a dict, the characters of a
\* str; <<>> stands for a value that cannot be iterated, told apart by Iterable
Iterable(v) == IsList(v) \/ IsDict(v) \/ IsStr(v)

IterItems(v) ==
    IF IsList(v) THEN v.l
    ELSE IF IsDict(v) THEN [i \in 1..Len(v.d) |-> PyStr(v.d[i][1])]
    ELSE [i \in 1..Len(v.s) |-> PyStr(Char(v.s, i))]

\* lines 650-653: "found", "missing" or "raise"
RECURSIVE FindProductFacet(_)
FindProductFacet(items) ==
    IF Len(items) = 0 THEN "missing"
    ELSE IF ~IsDict(items[1]) THEN "raise"
    ELSE IF Get0(items[1], "id") = PyStr("product") THEN "found"
    ELSE FindProductFacet(Tail(items))

IsWti(product_value) ==
    LET p_id == Upper(Get(product_value, "id", PyStr("")).s)
        p_name == Upper(Get(product_value, "name", PyStr("")).s)
        p_alias == Upper(Get(product_value, "alias", PyStr("")).s)
    IN  \/ Contains(p_id, "WTI") \/ Contains(p_name, "WTI") \/ Contains(p_alias, "WTI")
        \/ Contains(p_name, "WEST TEXAS INTERMEDIATE")
        \/ Contains(p_alias, "WEST TEXAS INTERMEDIATE")

\* lines 679-687: [st |-> "found" | "missing" | "raise", id |-> the product id]
RECURSIVE FindWti(_)
FindWti(items) ==
    IF Len(items) = 0 THEN [st |-> "missing", id |-> PyNone]
    ELSE IF ~IsDict(items[1]) THEN [st |-> "raise", id |-> PyNone]
    ELSE IF ~(/\ IsStr(Get(items[1], "id", PyStr("")))
              /\ IsStr(Get(items[1], "name", PyStr("")))
              /\ IsStr(Get(items[1], "alias", PyStr(""))))
    THEN [st |-> "raise", id |-> PyNone]
    ELSE IF IsWti(items[1]) THEN [st |-> "found", id |-> Get0(items[1], "id")]
    ELSE FindWti(Tail(items))

\* lines 710-716: the first column id the test accepts, "" when none
RECURSIVE FindPriceElement(_)
FindPriceElement(items) ==
    IF Len(items) = 0 THEN ""
    ELSE IF \/ (IsDict(items[1][2]) /\ Contains(Lower(items[1][1]), "price"))
            \/ Contains(Lower(items[1][1]), "value")
    THEN items[1][1]
    ELSE FindPriceElement(Tail(items))

\* the arguments of the call of lines 729-737
WtiDataArgs(price_element, wti_product_id) ==
    [route_path_with_data_segment |-> WtiDataPath,
     data_elements |-> PyList(<<PyStr(price_element)>>),
     facets |-> PyDict(<< <<"product", wti_product_id>> >>),
     frequency |-> PyStr("daily"), start_period |-> PyNone, end_period |-> PyNone,
     sort_column |-> PyStr("period"), sort_direction |-> PyStr("desc"),
     length |-> 50, offset |-> 0, debug_mode |-> FALSE]

\* lines 600-607
wti_begin ==
    ToolRequest(WtiRoute(1), PyNone, <<WtiStepLog(1)>>,
        [NoSaved EXCEPT !.steps_info =
            <<"Procurando dados de preco spot do petroleo WTI...", "">>])

\* lines 644-662, after step 3 went well
WtiAfterSpt(keep, spt_response) ==
    LET spt_data == Get(spt_response, "response", spt_response)
    IN
    IF ~IsDict(spt_data) THEN ToolRaise("AttributeError", <<>>)
    ELSE
    LET facets_metadata == Get(spt_data, "facets", PyList(<<>>))
    IN
    IF ~Iterable(facets_metadata) THEN ToolRaise("TypeError", <<>>)
    ELSE
    LET found == FindProductFacet(IterItems(facets_metadata))
    IN
    IF found = "raise" THEN ToolRaise("AttributeError", <<>>)
    ELSE IF found = "missing"
    THEN ToolReturn(TRUE,
            Lines(keep.steps_info
                  \o <<"Facet 'product' nao encontrado na rota spot 'petroleum/pri/spt'.">>),
            <<>>)
    ELSE ToolRequest(WtiRoute(4), PyNone, <<WtiStepLog(4)>>,
            [keep EXCEPT !.spt_data = spt_data,
                         !.steps_info = keep.steps_info \o
                             <<"Passo 4: Facet 'product' encontrado nos metadados da rota spot.">>])

\* lines 675-737, after step 5 (the facet values) went well
WtiAfterProducts(keep, product_values_response) ==
    LET product_values_data == Get(product_values_response, "response", product_values_response)
    IN
    IF ~IsDict(product_values_data) THEN ToolRaise("AttributeError", <<>>)
    ELSE
    LET product_facet_list == Get(product_values_data, "facets", PyList(<<>>))
    IN
    IF ~Iterable(product_facet_list) THEN ToolRaise("TypeError", <<>>)
    ELSE
    LET items == IterItems(product_facet_list)
        wti == FindWti(items)
    IN
    IF wti.st = "raise" THEN ToolRaise("AttributeError", <<>>)
    ELSE IF ~Truthy(wti.id)
    THEN \* product_facet_list[:10] slices a list or a str, not a dict
         IF IsDict(product_facet_list) THEN ToolRaise("TypeError", <<>>)
         ELSE IF ~AllDicts(Take(items, 10)) THEN ToolRaise("AttributeError", <<>>)
         ELSE ToolReturn(TRUE,
                Lines(keep.steps_info
                      \o <<"Valor de facet para 'WTI' nao encontrado na lista de produtos.",
                           "   Valores de produto disponiveis (primeiros 10):">>
                      \o [i \in 1..Len(Take(items, 10)) |->
                             "     - ID: " \o Str(Get0(items[i], "id"))
                                 \o ", Nome: " \o Str(Get0(items[i], "name"))]),
                <<>>)
    ELSE
    LET steps5 == keep.steps_info \o
                     <<"Passo 5: ID do produto WTI encontrado: '" \o Str(wti.id) \o "'">>
        data_columns_meta == Get(keep.spt_data, "data", PyDict(<<>>))
    IN
    \* data_columns_meta.items()
    IF ~IsDict(data_columns_meta) THEN ToolRaise("AttributeError", <<>>)
    ELSE
    LET found == FindPriceElement(data_columns_meta.d)
        price_element == IF found # "" THEN found ELSE "value"
        steps6 == IF found # "" THEN steps5
                  ELSE steps5 \o
                       <<"Nao foi possivel identificar explicitamente a coluna de preco. Assumindo a coluna '"
                           \o price_element \o "'.">>
        inner == route_data_begin(WtiDataArgs(price_element, wti.id))
        kept == [keep EXCEPT !.wti_product_id = wti.id, !.price_element = price_element,
                             !.steps_info = steps6]
    IN
    IF inner.kind = "request"
    THEN ToolRequest(inner.path, inner.params,
                     <<"INFO Passo 6: Recuperando dados de preco spot do WTI">> \o inner.lines,
                     kept)
    ELSE \* the inner tool returned before its request: lines 739-744
         ToolReturn(TRUE,
            Lines(steps6 \o <<"Erro ao recuperar dados de preco WTI: " \o inner.text>>),
            <<"INFO Passo 6: Recuperando dados de preco spot do WTI">>)

\* lines 739-755: the inner tool's result
WtiAfterData(keep, data_response) ==
    LET result_call ==
            route_data_resume(WtiDataArgs(keep.price_element, keep.wti_product_id),
                              data_response)
    IN  IF result_call.kind = "raised" THEN result_call
        ELSE IF result_call.is_error
        THEN ToolReturn(TRUE,
                Lines(keep.steps_info
                      \o <<"Erro ao recuperar dados de preco WTI: " \o result_call.text>>),
                <<>>)
        ELSE ToolReturn(FALSE,
                Lines(keep.steps_info
                      \o <<"Passo 6: Dados de preco spot do WTI recuperados com sucesso.",
                           "",
                           "--- Resultados do Preco Spot WTI (Top 50 Diarios) ---",
                           result_call.text>>),
                <<>>)

\* find_wti_oil_data from the return of its n-th transport call to its next
\* await or its return
wti_resume(n, keep, r) ==
    IF n = 5 THEN WtiAfterData(keep, r)
    ELSE IF WtiCheck(r) = "raise" THEN ToolRaise("AttributeError", <<>>)
    ELSE IF WtiCheck(r) = "error"
    THEN ToolReturn(TRUE,
            Lines(keep.steps_info
                  \o <<WtiStepError(n) \o Str(Get(r, "message", PyStr("N/A")))>>),
            <<>>)
    ELSE IF n = 4 THEN WtiAfterProducts(keep, r)
    ELSE LET kept == [keep EXCEPT !.steps_info = keep.steps_info \o <<WtiStepOk(n)>>]
         IN  IF n = 3 THEN WtiAfterSpt(kept, r)
             ELSE ToolRequest(WtiRoute(n + 1), PyNone, <<WtiStepLog(n + 1)>>, kept)

-----------------------------------------------------------------------------
(* The inputs: the credential, the arguments of the tools, and what the     *)
(* upstream answers.                                                        *)

\* a configured credential, and none
Credentials == {"", "k3y5ecr3t"}

RouteDataBase ==
    [route_path_with_data_segment |-> "electricity/retail-sales/data/",
     data_elements |-> PyList(<<PyStr("price")>>),
     facets |-> PyNone, frequency |-> PyNone, start_period |-> PyNone,
     end_period |-> PyNone, sort_column |-> PyNone, sort_direction |-> PyNone,
     length |-> 5000, offset |-> 0, debug_mode |-> FALSE]

RouteDataPaths ==
    {"electricity/retail-sales/data/", "electricity/retail-sales/data",
     "petroleum/pri/spt/data", "electricity/rto/region-data/data/",
     "electricity/retail-sales", "petroleum/pri/spt/", ""}

FacetInputs ==
    {PyNone, PyDict(<<>>),
     PyDict(<< <<"product", PyStr("EPCWTI")>> >>),
     PyDict(<< <<"stateid", PyList(<<PyStr("CO"), PyStr("TX")>>)>>,
               <<"sectorid", PyStr("RES")>> >>)}

DataElementInputs == {PyNone, PyList(<<>>), PyList(<<PyStr("price"), PyStr("revenue")>>)}

SortInputs ==
    {<<PyNone, PyNone>>, <<PyStr("period"), PyStr("desc")>>, <<PyStr("period"), PyNone>>,
     <<PyStr(""), PyStr("asc")>>}

PageInputs == {<<5000, 0>>, <<6000, 0>>, <<2, 1>>, <<2, 2>>, <<10, 0 - 5>>}

RouteDataArgs ==
    {[RouteDataBase EXCEPT !.route_path_with_data_segment = p] : p \in RouteDataPaths}
    \cup {[RouteDataBase EXCEPT !.facets = f, !.debug_mode = d] :
              f \in FacetInputs, d \in BOOLEAN}
    \cup {[RouteDataBase EXCEPT !.data_elements = e] : e \in DataElementInputs}
    \cup {[RouteDataBase EXCEPT !.sort_column = x[1], !.sort_direction = x[2]] :
              x \in SortInputs}
    \cup {[RouteDataBase EXCEPT !.length = x[1], !.offset = x[2]] : x \in PageInputs}
    \cup {[RouteDataBase EXCEPT !.frequency = PyStr("monthly"),
                                !.start_period = PyStr("2023-01"),
                                !.end_period = PyStr("2024-01")]}

SegmentInputs ==
    {PyNone, PyStr(""), PyStr("petroleum"), PyStr("/petroleum/pri/spt/"),
     PyStr("petroleum/pri/spt/facet/product")}

RoutesEnhancedArgs ==
    {[segment_path |-> p, show_examples |-> e] : p \in SegmentInputs, e \in BOOLEAN}

RoutesArgs == {[segment_path |-> p] : p \in SegmentInputs}

SeriesBase ==
    [series_id |-> "ELEC.SALES.CO-RES.A", data_elements |-> PyNone, frequency |-> PyNone,
     start_period |-> PyNone, end_period |-> PyNone, sort_column |-> PyNone,
     sort_direction |-> PyNone]

SeriesArgs ==
    {[SeriesBase EXCEPT !.data_elements = e] : e \in DataElementInputs}
    \cup {[SeriesBase EXCEPT !.sort_column = x[1], !.sort_direction = x[2]] :
              x \in SortInputs}
    \cup {[SeriesBase EXCEPT !.frequency = PyStr("annual"),
                             !.start_period = PyStr("2020"), !.end_period = PyStr("2023")]}

NoArgs == [none |-> TRUE]

\* the envelope's echo of the request
RequestEcho(command) ==
    PyDict(<< <<"command", PyStr(command)>>, <<"params", PyDict(<<>>)>> >>)

BodyRoutes ==
    PyDict(<< <<"response", PyDict(<< <<"routes", PyList(<<
        PyDict(<< <<"id", PyStr("electricity")>>, <<"name", PyStr("Electricity")>> >>) >>)>> >>)>> >>)

BodyPetroleum ==
    PyDict(<< <<"response", PyDict(<<
                  <<"id", PyStr("petroleum")>>, <<"name", PyStr("Petroleum")>>,
                  <<"description", PyStr("EIA petroleum data")>>,
                  <<"routes", PyList(<<
                      PyDict(<< <<"id", PyStr("pri")>>, <<"name", PyStr("Prices")>>,
                                <<"description", PyStr("Petroleum prices")>> >>),
                      PyDict(<< <<"id", PyStr("sum")>>, <<"name", PyStr("Summary")>> >>) >>)>> >>)>>,
              <<"request", RequestEcho("/v2/petroleum/")>>,
              <<"apiVersion", PyStr("2.1.7")>> >>)

BodySptMetadata ==
    PyDict(<< <<"response", PyDict(<<
                  <<"id", PyStr("spt")>>, <<"name", PyStr("Spot Prices")>>,
                  <<"description", PyStr("Crude oil spot prices")>>,
                  <<"frequency", PyList(<<
                      PyDict(<< <<"id", PyStr("daily")>>, <<"query", PyStr("daily")>>,
                                <<"description", PyStr("Daily")>>,
                                <<"format", PyStr("YYYY-MM-DD")>> >>) >>)>>,
                  <<"facets", PyList(<<
                      PyDict(<< <<"id", PyStr("duoarea")>> >>),
                      PyDict(<< <<"id", PyStr("product")>>,
                                <<"description", PyStr("Product")>> >>) >>)>>,
                  <<"data", PyDict(<<
                      <<"value", PyDict(<< <<"alias", PyStr("Price")>>,
                                           <<"units", PyStr("$ per BBL")>> >>)>> >>)>>,
                  <<"startPeriod", PyStr("1986-01-02")>>,
                  <<"endPeriod", PyStr("2024-01-02")>>,
                  <<"defaultFrequency", PyStr("daily")>> >>)>>,
              <<"request", RequestEcho("/v2/petroleum/pri/spt/")>> >>)

\* route metadata whose `data` entry is a list of column names
BodySptDataList ==
    PyDict(<< <<"response", PyDict(<<
                  <<"id", PyStr("spt")>>, <<"name", PyStr("Spot Prices")>>,
                  <<"facets", PyList(<<
                      PyDict(<< <<"id", PyStr("product")>>,
                                <<"description", PyStr("Product")>> >>) >>)>>,
                  <<"data", PyList(<<PyStr("value")>>)>> >>)>>,
              <<"request", RequestEcho("/v2/petroleum/pri/spt/")>> >>)

BodyFacetValues ==
    PyDict(<< <<"response", PyDict(<<
                  <<"totalFacets", PyInt(2)>>,
                  <<"facets", PyList(<<
                      PyDict(<< <<"id", PyStr("EPCBRENT")>>,
                                <<"name", PyStr("UK Brent Crude Oil")>> >>),
                      PyDict(<< <<"id", PyStr("EPCWTI")>>, <<"name", PyStr("WTI Crude Oil")>>,
                                <<"alias", PyStr("West Texas Intermediate")>> >>) >>)>> >>)>>,
              <<"request", RequestEcho("/v2/petroleum/pri/spt/facet/product/")>> >>)

Row(period, value) ==
    PyDict(<< <<"period", PyStr(period)>>, <<"product", PyStr("EPCWTI")>>,
              <<"value", PyInt(value)>> >>)

BodyData ==
    PyDict(<< <<"response", PyDict(<<
                  <<"total", PyInt(3)>>,
                  <<"data", PyList(<<Row("2024-01-03", 72), Row("2024-01-02", 70)>>)>> >>)>>,
              <<"request", RequestEcho("/v2/petroleum/pri/spt/data/")>> >>)

\* the upstream has been seen to send the total as a string
BodyDataStringTotal ==
    PyDict(<< <<"response", PyDict(<<
                  <<"total", PyStr("2")>>,
                  <<"data", PyList(<<Row("2024-01-03", 72), Row("2024-01-02", 70)>>)>> >>)>>,
              <<"request", RequestEcho("/v2/petroleum/pri/spt/data/")>> >>)

\* one row more than the table of get_eia_v2_route_data_enhanced shows
BodyManyRows ==
    PyDict(<< <<"response", PyDict(<<
                  <<"total", PyInt(DisplayLimit + 1)>>,
                  <<"data", PyList([i \in 1..(DisplayLimit + 1) |-> Row("2024-01-02", i)])>> >>)>>,
              <<"request", RequestEcho("/v2/petroleum/pri/spt/data/")>> >>)

\* the content at the root, without the response wrapper
BodyDataAtRoot ==
    PyDict(<< <<"data", PyList(<<Row("2024-01-02", 70)>>)>> >>)

BodyEmptyData ==
    PyDict(<< <<"response", PyDict(<< <<"data", PyList(<<>>)>>, <<"total", PyInt(0)>> >>)>> >>)

BodyEmptyDataEnvelope ==
    PyDict(<< <<"response", PyDict(<< <<"total", PyInt(0)>>, <<"data", PyList(<<>>)>>,
                                      <<"warnings", PyStr("no rows matched")>> >>)>>,
              <<"request", RequestEcho("/v2/seriesid/ELEC.SALES.CO-RES.A")>> >>)

BodyEmptyDataAtRoot ==
    PyDict(<< <<"data", PyList(<<>>)>>, <<"total", PyInt(0)>> >>)

BodyUnknown == PyDict(<< <<"status", PyStr("ok")>> >>)

\* an error the upstream reports in a body sent with status 200
BodyErrorIn200 ==
    PyDict(<< <<"error", PyStr("No route found")>> >>)

\* a content whose `routes` and `data` lists hold values that are no objects
BodyJunk ==
    PyDict(<< <<"response", PyDict(<<
                  <<"routes", PyList(<<PyStr("electricity")>>)>>,
                  <<"data", PyList(<<PyInt(1)>>)>> >>)>>,
              <<"request", RequestEcho("/v2/")>> >>)

\* a content that has the marks of all three shapes at once
BodyMixed ==
    PyDict(<< <<"response", PyDict(<<
                  <<"id", PyStr("sectorid")>>, <<"name", PyStr("Sector")>>,
                  <<"routes", PyList(<<
                      PyDict(<< <<"id", PyStr("sub")>>, <<"name", PyStr("Sub")>> >>) >>)>>,
                  <<"totalFacets", PyInt(1)>>,
                  <<"facets", PyList(<<
                      PyDict(<< <<"id", PyStr("RES")>>,
                                <<"name", PyStr("residential")>> >>) >>)>> >>)>>,
              <<"request", RequestEcho("/v2/electricity/retail-sales/facet/sectorid/")>> >>)

\* a body that repeats the credential it was sent, as an echo of the request does
BodyEcho ==
    PyDict(<< <<"response", PyDict(<< <<"data", PyList(<<>>)>>, <<"total", PyInt(0)>> >>)>>,
              <<"request", PyDict(<< <<"command", PyStr("/v2/")>>,
                                     <<"params", PyDict(<< <<"api_key", PyStr(EIA_API_KEY)>> >>)>> >>)>> >>)

SuccessBodies ==
    {BodyRoutes, BodyPetroleum, BodySptMetadata, BodySptDataList, BodyFacetValues, BodyData,
     BodyDataStringTotal, BodyManyRows, BodyDataAtRoot, BodyEmptyData, BodyEmptyDataEnvelope,
     BodyEmptyDataAtRoot, BodyUnknown, BodyErrorIn200, BodyJunk, BodyMixed, BodyEcho,
     PyNone, PyDict(<<>>), PyList(<<>>), PyList(<<PyStr("unexpected")>>), PyStr("OK")}

ErrorInvalidKey == PyDict(<< <<"error", PyStr("invalid api_key")>> >>)

ErrorWithMessage ==
    PyDict(<< <<"error", PyStr("Bad Request")>>,
              <<"message", PyStr("Invalid frequency 'hourly'")>> >>)

ErrorEcho ==
    PyDict(<< <<"error", PyStr("API key " \o EIA_API_KEY \o " is not registered")>> >>)

ErrorBodies ==
    {ErrorInvalidKey, ErrorWithMessage, ErrorEcho, PyDict(<<>>),
     PyList(<<PyStr("invalid api_key")>>), PyStr("invalid api_key"), PyNone}

Outcomes ==
    {Response(200, b) : b \in SuccessBodies}
    \cup {Response(403, b) : b \in ErrorBodies}
    \cup {Response(500, ErrorWithMessage),
          RawResponse(200, "<html>maintenance</html>"),
          RawResponse(204, ""),
          RawResponse(404, "Not Found"),
          RawResponse(502, "<html>Bad Gateway</html>"),
          Failed("ConnectError", "All connection attempts failed"),
          Failed("ReadTimeout", ""),
          Failed("RuntimeError", "Event loop is closed")}

-----------------------------------------------------------------------------
(* The server: one tool runs at a time, from the host's call to the tool's  *)
(* return; it is suspended only while a GET is in flight.                   *)

NoResult == [kind |-> "none", is_error |-> FALSE, text |-> ""]

NoOutcome == Failed("", "")

NoLast == [kind |-> "none", value |-> PyNone, outcome |-> NoOutcome]

Init ==
    /\ EIA_API_KEY \in Credentials
    /\ pc = "idle"
    /\ tool = "none"
    /\ args = NoArgs
    /\ step = 0
    /\ saved = NoSaved
    /\ request = NoRequest
    /\ gets = 0
    /\ calls = <<>>
    /\ last = NoLast
    /\ log = <<>>
    /\ result = NoResult

\* the tool t, from the host's call to its first await or its return
BeginOf(t, a) ==
    CASE t = "health_check" -> health_check_begin
      [] t = "test_eia_connection" -> test_connection_begin
      [] t = "get_eia_v2_route_data_enhanced" -> route_data_begin(a)
      [] t = "list_eia_v2_routes_enhanced" -> routes_enhanced_begin(a)
      [] t = "find_wti_oil_data" -> wti_begin
      [] t = "get_eia_v2_series_id_data" -> series_begin(a)
      [] t = "list_eia_v2_routes" -> routes_begin(a)

\* the tool t, from the return of its n-th call of make_eia_api_request to
\* its next await or its return
ResumeOf(t, a, n, keep, r) ==
    CASE t = "test_eia_connection" -> test_connection_resume(r)
      [] t = "get_eia_v2_route_data_enhanced" -> route_data_resume(a, r)
      [] t = "list_eia_v2_routes_enhanced" -> routes_enhanced_resume(a, r)
      [] t = "find_wti_oil_data" -> wti_resume(n, keep, r)
      [] t = "get_eia_v2_series_id_data" -> series_resume(a, r)
      [] t = "list_eia_v2_routes" -> routes_resume(a, r)

\* the tool goes on as `out` says: it returns or raises, or it calls
\* make_eia_api_request, which returns at once or awaits its GET
Proceed(out) ==
    IF out.kind = "request"
    THEN LET m == make_begin(out.path, out.params)
         IN  /\ calls' = Append(calls, out.path)
             /\ step' = step + 1
             /\ saved' = out.saved
             /\ log' = log \o out.lines \o m.lines
             /\ request' = m.request
             /\ gets' = IF m.sent THEN 1 ELSE 0
             /\ pc' = IF m.sent THEN "awaiting" ELSE "resuming"
             /\ last' = IF m.sent THEN NoLast
                        ELSE [kind |-> "return", value |-> m.ret, outcome |-> NoOutcome]
             /\ result' = NoResult
    ELSE /\ pc' = "returned"
         /\ result' = [kind |-> out.kind, is_error |-> out.is_error, text |-> out.text]
         /\ log' = log \o out.lines
         /\ request' = NoRequest
         /\ UNCHANGED <<calls, step, saved, gets, last>>

Call(t, a) ==
    /\ tool' = t
    /\ args' = a
    /\ Proceed(BeginOf(t, a))
    /\ UNCHANGED EIA_API_KEY

CallHealthCheck == pc = "idle" /\ Call("health_check", NoArgs)

CallTestConnection == pc = "idle" /\ Call("test_eia_connection", NoArgs)

CallRouteData == pc = "idle" /\ \E a \in RouteDataArgs : Call("get_eia_v2_route_data_enhanced", a)

CallRoutesEnhanced == pc = "idle" /\ \E a \in RoutesEnhancedArgs : Call("list_eia_v2_routes_enhanced", a)

CallFindWti == pc = "idle" /\ Call("find_wti_oil_data", NoArgs)

CallSeries == pc = "idle" /\ \E a \in SeriesArgs : Call("get_eia_v2_series_id_data", a)

CallRoutes == pc = "idle" /\ \E a \in RoutesArgs : Call("list_eia_v2_routes", a)

\* the exchange ends and make_eia_api_request runs to its return
Respond ==
    /\ pc = "awaiting"
    /\ \E o \in Outcomes :
          LET e == make_end(o, request)
          IN  IF AfterExchange(o) = "leave"
              THEN /\ pc' = "resuming"
                   /\ last' = [kind |-> e.kind, value |-> e.value, outcome |-> o]
                   /\ log' = log \o e.lines
                   /\ UNCHANGED gets
              ELSE \* one more GET for the same call
                   /\ gets < MaxGets
                   /\ pc' = "awaiting"
                   /\ gets' = gets + 1
                   /\ log' = log \o e.lines
                   /\ UNCHANGED last
    /\ UNCHANGED <<EIA_API_KEY, tool, args, step, saved, request, calls, result>>

\* the tool takes what make_eia_api_request returned; an exception that left
\* make_eia_api_request leaves the tool too
Resume ==
    /\ pc = "resuming"
    /\ IF last.kind = "raise"
       THEN Proceed(ToolRaise(last.value.s, <<>>))
       ELSE Proceed(ResumeOf(tool, args, step, saved, last.value))
    /\ UNCHANGED <<EIA_API_KEY, tool, args>>

\* the host has the result; the server waits for the next call
Finish ==
    /\ pc = "returned"
    /\ pc' = "idle"
    /\ tool' = "none"
    /\ args' = NoArgs
    /\ step' = 0
    /\ saved' = NoSaved
    /\ request' = NoRequest
    /\ gets' = 0
    /\ calls' = <<>>
    /\ last' = NoLast
    /\ log' = <<>>
    /\ result' = NoResult
    /\ UNCHANGED EIA_API_KEY

Next ==
    \/ CallHealthCheck
    \/ CallTestConnection
    \/ CallRouteData
    \/ CallRoutesEnhanced
    \/ CallFindWti
    \/ CallSeries
    \/ CallRoutes
    \/ Respond
    \/ Resume
    \/ Finish

Spec == Init /\ [][Next]_vars

-----------------------------------------------------------------------------
(* What the claims speak of *)

\* a call of get_eia_v2_route_data_enhanced has its GET in flight: the host's
\* call, or the one find_wti_oil_data makes as its fifth transport call
DataCallAwaiting ==
    /\ pc = "awaiting"
    /\ \/ tool = "get_eia_v2_route_data_enhanced"
       \/ tool = "find_wti_oil_data" /\ step = 5

\* the arguments of that call
DataCallArgs ==
    IF tool = "find_wti_oil_data"
    THEN WtiDataArgs(saved.price_element, saved.wti_product_id)
    ELSE args

\* the path handed to the transport by the call in progress
TransportPath == calls[Len(calls)]

\* the exchange o did not give a parsed 2xx body
Failing(o) == o.kind = "exception" \/ ~IsSuccess(o.status) \/ IsUnparseable(o.json)

\* the log lines make_eia_api_request writes, by their beginnings
TransportLinePrefixes ==
    {"ERROR EIA_API_KEY", "INFO Requisicao EIA: ", "INFO Parametros (sem API Key): ",
     "INFO Status da resposta: ", "ERROR Resposta nao-200: ",
     "INFO Estrutura da resposta: ", "ERROR Erro HTTP EIA API: ",
     "ERROR Erro de requisicao EIA API: ", "ERROR Erro inesperado EIA API: "}

IsTransportLine(l) == \E p \in TransportLinePrefixes : StartsWith(l, p)

\* the body b has an empty data array, in its `response` object or at its root
HasEmptyData(b) ==
    /\ IsDict(b)
    /\ LET c == Get(b, "response", b)
       IN  IsDict(c) /\ Get0(c, "data") = PyList(<<>>)

-----------------------------------------------------------------------------
(* C1 *)

\* C1: for every key k of the facets mapping passed to
\* get_eia_v2_route_data_enhanced, the encoded parameters hold the key
\* `facets[k][]` with a sequence as its value, a scalar being wrapped.
C1_FacetsAreBracketedSequences ==
    (DataCallAwaiting /\ Truthy(DataCallArgs.facets) /\ IsDict(DataCallArgs.facets)) =>
        \A i \in 1..Len(DataCallArgs.facets.d) :
            LET k == "facets[" \o DataCallArgs.facets.d[i][1] \o "][]"
            IN  /\ HasKey(request.params, k)
                /\ IsList(Item(request.params, k))

\* the request for facets = {"product": "EPCWTI"} carries the key
\* `facets[product]` with the bare string
C1_ScalarFacetSentBare ==
    /\ pc = "awaiting"
    /\ tool = "get_eia_v2_route_data_enhanced"
    /\ args.facets = PyDict(<< <<"product", PyStr("EPCWTI")>> >>)
    /\ ~HasKey(request.params, "facets[product][]")
    /\ Get0(request.params, "facets[product]") = PyStr("EPCWTI")

-----------------------------------------------------------------------------
(* C2 *)

\* C2: for a path that ends in '/data' or '/data/', the path
\* get_eia_v2_route_data_enhanced hands to the transport is the input without
\* its trailing slashes, the segments before '/data' kept as they are.
C2_DataPathIsPreserved ==
    (/\ DataCallAwaiting
     /\ \/ EndsWith(DataCallArgs.route_path_with_data_segment, "/data")
        \/ EndsWith(DataCallArgs.route_path_with_data_segment, "/data/")) =>
        /\ TransportPath = RStrip(DataCallArgs.route_path_with_data_segment, {"/"})
        /\ request.url = EIA_API_BASE_URL \o "/" \o TransportPath

\* find_wti_oil_data asks for 'petroleum/pri/spt/data' and the GET goes to
\* 'petroleum/pri/sp/data'
C2_WtiPathLosesLetter ==
    /\ pc = "awaiting"
    /\ tool = "find_wti_oil_data"
    /\ step = 5
    /\ TransportPath = "petroleum/pri/sp/data"
    /\ request.url = "https://api.eia.gov/v2/petroleum/pri/sp/data"

-----------------------------------------------------------------------------
(* C3 *)

\* C3, as the code has it: a path given to get_eia_v2_route_data_enhanced that
\* ends neither in '/data' nor in '/data/' is refused: the tool returns a
\* result with is_error true whose text names the path, and no transport call
\* and no GET is made.
C3_PathWithoutDataIsRefused ==
    (/\ tool = "get_eia_v2_route_data_enhanced"
     /\ ~EndsWith(args.route_path_with_data_segment, "/data")
     /\ ~EndsWith(args.route_path_with_data_segment, "/data/")) =>
        /\ pc = "returned"
        /\ calls = <<>>
        /\ gets = 0
        /\ request = NoRequest
        /\ result.kind = "result"
        /\ result.is_error
        /\ EndsWith(result.text,
                    "Caminho fornecido: " \o args.route_path_with_data_segment)

C3_RefusedWithoutRequest ==
    /\ tool = "get_eia_v2_route_data_enhanced"
    /\ args.route_path_with_data_segment = "electricity/retail-sales"
    /\ pc = "returned"
    /\ result.is_error
    /\ calls = <<>>

\* C3, as the claim has it: for a path that does not end in '/data' (nor in
\* '/data/') the tool appends '/data' and issues the request against the
\* suffixed route.
C3_DataSuffixIsAppended ==
    (/\ tool = "get_eia_v2_route_data_enhanced"
     /\ ~EndsWith(args.route_path_with_data_segment, "/data")
     /\ ~EndsWith(args.route_path_with_data_segment, "/data/")
     /\ pc # "idle") =>
        calls = <<RStrip(args.route_path_with_data_segment, {"/"}) \o "/data">>

-----------------------------------------------------------------------------
(* C4 *)

\* C4: every call of make_eia_api_request ends by returning one value, never
\* by raising: the parsed body after a 2xx exchange whose body parses, and a
\* mapping with an 'error' key after every other outcome.
C4_TransportAlwaysReturns ==
    pc = "resuming" =>
        /\ last.kind = "return"
        /\ IF Failing(last.outcome)
           THEN IsDict(last.value) /\ Truthy(Get0(last.value, "error"))
           ELSE last.value = last.outcome.json

C4_UnanticipatedExceptionReturned ==
    /\ pc = "resuming"
    /\ last.outcome = Failed("RuntimeError", "Event loop is closed")
    /\ last.kind = "return"
    /\ last.value = PyDict(<< <<"error", PyStr("UnexpectedError")>>,
                              <<"message", PyStr("Event loop is closed")>> >>)

-----------------------------------------------------------------------------
(* C5 *)

\* C5: with no credential configured, make_eia_api_request returns the
\* missing-credential failure and no GET is issued, and every tool that calls
\* upstream returns a result with is_error true and does not raise.
C5_NoCredentialNoRequest ==
    EIA_API_KEY = "" =>
        /\ pc # "awaiting"
        /\ gets = 0
        /\ request = NoRequest
        /\ (pc = "resuming" => last.kind = "return" /\ last.value = MissingKeyFailure)
        /\ (pc = "returned" /\ tool # "health_check" =>
                result.kind = "result" /\ result.is_error)

C5_MissingCredentialReported ==
    /\ EIA_API_KEY = ""
    /\ pc = "returned"
    /\ tool = "list_eia_v2_routes"
    /\ calls = <<"">>
    /\ last.value = MissingKeyFailure
    /\ result.is_error

-----------------------------------------------------------------------------
(* C6 *)

\* C6: one call of make_eia_api_request issues at most one GET: when the
\* exchange ends, failed or not, the call returns and sends nothing more,
\* and a failed exchange is returned as the call's failure.
C6_AtMostOneGet ==
    [][/\ gets' <= 1
       /\ pc = "awaiting" =>
             /\ pc' = "resuming"
             /\ gets' = gets
             /\ calls' = calls
             /\ last'.kind = "return"
             /\ Failing(last'.outcome) => Truthy(Get0(last'.value, "error"))]_vars

C6_FailedAttemptIsFinal ==
    /\ pc = "resuming"
    /\ gets = 1
    /\ last.outcome = Failed("ConnectError", "All connection attempts failed")
    /\ last.value = PyDict(<< <<"error", PyStr("RequestError")>>,
                              <<"message", PyStr("All connection attempts failed")>> >>)

-----------------------------------------------------------------------------
(* C7 *)

\* C7: after a 2xx response whose body is not parseable JSON,
\* make_eia_api_request returns a failure whose kind is not the kind it
\* returns for unanticipated exceptions.
C7_MalformedHasItsOwnKind ==
    (/\ pc = "resuming"
     /\ last.outcome.kind = "response"
     /\ IsSuccess(last.outcome.status)
     /\ IsUnparseable(last.outcome.json)) =>
        /\ last.kind = "return"
        /\ IsDict(last.value)
        /\ Truthy(Get0(last.value, "error"))
        /\ Get0(last.value, "error") # PyStr(UnexpectedKind)

\* a 200 with an HTML page comes back as an UnexpectedError
C7_MalformedReportedAsUnexpected ==
    /\ pc = "resuming"
    /\ last.outcome = RawResponse(200, "<html>maintenance</html>")
    /\ last.value = PyDict(<< <<"error", PyStr("UnexpectedError")>>,
                              <<"message",
                                PyStr("Expecting value: line 1 column 1 (char 0)")>> >>)

-----------------------------------------------------------------------------
(* C8 *)

\* C8: after a non-2xx response whose body parses as JSON, an object or any
\* other value, make_eia_api_request returns the HTTP-status failure with the
\* status code and with the parsed body as its details; and the text a tool
\* returns after a 403 with {"error": "invalid api_key"} holds 'invalid api_key'.
C8_ErrorBodyIsCarried ==
    /\ (/\ pc = "resuming"
        /\ last.outcome.kind = "response"
        /\ ~IsSuccess(last.outcome.status)
        /\ ~IsUnparseable(last.outcome.json)) =>
           /\ last.kind = "return"
           /\ IsDict(last.value)
           /\ Get0(last.value, "error")
                 = PyStr("HTTPStatusError: " \o ToString(last.outcome.status))
           /\ HasKey(last.value, "details")
           /\ Item(last.value, "details") = last.outcome.json
    /\ (/\ pc = "returned"
        /\ last.outcome = Response(403, ErrorInvalidKey)) =>
           /\ result.kind = "result"
           /\ result.is_error
           /\ Contains(result.text, "invalid api_key")

\* a 403 whose body is the JSON list ["invalid api_key"] comes back without
\* details
C8_ListBodyLosesDetails ==
    /\ pc = "resuming"
    /\ last.outcome = Response(403, PyList(<<PyStr("invalid api_key")>>))
    /\ last.value = PyDict(<< <<"error", PyStr("HTTPStatusError: 403")>>,
                              <<"message", PyStr("[\"invalid api_key\"]")>> >>)

-----------------------------------------------------------------------------
(* C9 *)

\* C9: the configured credential is sent as the api_key parameter of every
\* request, and it is in no log line make_eia_api_request writes and in no
\* tool result's text, whatever the upstream answers.
C9_CredentialStaysPrivate ==
    EIA_API_KEY # "" =>
        /\ pc = "awaiting" => Get0(request.params, "api_key") = PyStr(EIA_API_KEY)
        /\ \A i \in 1..Len(log) :
               IsTransportLine(log[i]) => ~Contains(log[i], EIA_API_KEY)
        /\ ~Contains(result.text, EIA_API_KEY)

\* a tool result whose text holds the credential, after a log line of the
\* transport that holds it too
C9_CredentialInResultAndLog ==
    /\ EIA_API_KEY # ""
    /\ pc = "returned"
    /\ result.kind = "result"
    /\ Contains(result.text, EIA_API_KEY)
    /\ \E i \in 1..Len(log) : IsTransportLine(log[i]) /\ Contains(log[i], EIA_API_KEY)

-----------------------------------------------------------------------------
(* C10 *)

\* C10: after a 2xx body whose data array is empty, both
\* get_eia_v2_route_data_enhanced and get_eia_v2_series_id_data return a
\* result with is_error false.
C10_EmptyDataIsNotAnError ==
    (/\ pc = "returned"
     /\ tool \in {"get_eia_v2_route_data_enhanced", "get_eia_v2_series_id_data"}
     /\ last.kind = "return"
     /\ last.outcome.kind = "response"
     /\ ~Failing(last.outcome)
     /\ HasEmptyData(last.outcome.json)) =>
        /\ result.kind = "result"
        /\ ~result.is_error

\* the series tool answers {"data": [], "total": 0} with an error
C10_SeriesRootBodyIsError ==
    /\ pc = "returned"
    /\ tool = "get_eia_v2_series_id_data"
    /\ last.outcome = Response(200, BodyEmptyDataAtRoot)
    /\ result.kind = "result"
    /\ result.is_error

-----------------------------------------------------------------------------
(* C11 *)

\* a listing tool has returned after an exchange that gave the parsed 2xx
\* body b
ListingReturnedAfter(b) ==
    /\ pc = "returned"
    /\ tool \in {"list_eia_v2_routes", "list_eia_v2_routes_enhanced"}
    /\ last.kind = "return"
    /\ last.outcome = Response(200, b)

\* the content object the running listing tool takes from the body b
ListingContent(b) ==
    IF tool = "list_eia_v2_routes" THEN RoutesContent(b) ELSE EnhancedContent(b)

\* the content c is an object of none of the three known shapes
MatchesNoShape(c) ==
    /\ IsDict(c)
    /\ ~IsFacetValues(c)
    /\ ~IsRouteListing(c)
    /\ ~IsRouteMetadata(c)

\* C11: when a parsed 2xx body matches none of the known shapes (facet
\* values, route listing, route metadata), list_eia_v2_routes and
\* list_eia_v2_routes_enhanced both return a result with is_error true.
C11_UnrecognizedIsAnError ==
    \A b \in SuccessBodies :
        (/\ ListingReturnedAfter(b)
         /\ IsDict(b)
         /\ MatchesNoShape(ListingContent(b))) =>
            /\ result.kind = "result"
            /\ result.is_error

\* list_eia_v2_routes_enhanced answers {"status": "ok"} with a result that is
\* no error
C11_EnhancedUnrecognizedNotError ==
    /\ ListingReturnedAfter(BodyUnknown)
    /\ tool = "list_eia_v2_routes_enhanced"
    /\ result.kind = "result"
    /\ ~result.is_error
    /\ StartsWith(result.text, "Resposta em formato nao reconhecido para: ")

-----------------------------------------------------------------------------
(* C12 *)

\* the lines of the text s
LinesOf(s) ==
    LET breaks == {i \in 1..Len(s) : Char(s, i) = "\n"}
        starts == {1} \cup {i + 1 : i \in breaks}
        EndOf(p) == CHOOSE j \in (breaks \cup {Len(s) + 1}) :
                        /\ j >= p
                        /\ \A k \in (breaks \cup {Len(s) + 1}) : k >= p => j <= k
    IN  {SubSeq(s, p, EndOf(p) - 1) : p \in starts}

\* the lines of the result's text that show the child 'electricity' with its
\* name 'Electricity'
ElectricityLines ==
    {l \in LinesOf(result.text) : Contains(l, "electricity") /\ Contains(l, "Electricity")}

\* C12: for the body {"response": {"routes": [{"id": "electricity", "name":
\* "Electricity"}]}}, which has no `request` key beside `response`, each of
\* list_eia_v2_routes and list_eia_v2_routes_enhanced takes it for a route
\* listing with one child: the result is no error and its text has a line
\* with both 'electricity' and 'Electricity'.
C12_WrappedRoutesAreListed ==
    ListingReturnedAfter(BodyRoutes) =>
        /\ result.kind = "result"
        /\ ~result.is_error
        /\ Cardinality(ElectricityLines) = 1

\* list_eia_v2_routes answers that body with an error: it looks for `routes`
\* at the root
C12_RoutesToolRejectsWrapper ==
    /\ ListingReturnedAfter(BodyRoutes)
    /\ tool = "list_eia_v2_routes"
    /\ result.kind = "result"
    /\ result.is_error
    /\ Contains(result.text, "nao corresponde a um formato esperado")

-----------------------------------------------------------------------------
(* C13 *)

\* the content the running tool takes from the body b
ContentTaken(b) ==
    CASE tool = "get_eia_v2_route_data_enhanced" -> RouteDataContent(b)
      [] tool = "list_eia_v2_routes_enhanced" -> EnhancedContent(b)
      [] tool = "list_eia_v2_routes" -> RoutesContent(b)
      [] tool = "get_eia_v2_series_id_data" -> SeriesContent(b)

\* the transport has returned a parsed 2xx body that is an object to one of
\* the four tools
ObjectBodyReturned ==
    /\ pc = "resuming"
    /\ tool \in {"get_eia_v2_route_data_enhanced", "list_eia_v2_routes_enhanced",
                 "list_eia_v2_routes", "get_eia_v2_series_id_data"}
    /\ last.kind = "return"
    /\ ~Failing(last.outcome)
    /\ IsDict(last.value)

\* C13: each of the four tools takes the content from the body's `response`
\* object if and only if the body also has a `request` key, and takes the
\* body root otherwise.
C13_ResponseTakenIffRequest ==
    ObjectBodyReturned =>
        ContentTaken(last.value) =
            IF HasKey(last.value, "request") /\ HasKey(last.value, "response")
            THEN Item(last.value, "response")
            ELSE last.value

\* the series tool, given rows at the root of the body, takes an empty
\* content and returns an error
C13_SeriesIgnoresRootContent ==
    /\ pc = "returned"
    /\ tool = "get_eia_v2_series_id_data"
    /\ last.outcome = Response(200, BodyDataAtRoot)
    /\ SeriesContent(last.value) = PyDict(<<>>)
    /\ result.kind = "result"
    /\ result.is_error

-----------------------------------------------------------------------------
(* C14 *)

\* the branch a listing tool took, told by the heading of its text
BranchShown ==
    IF StartsWith(result.text, "Valores disponiveis para o facet")
    THEN "facet_values"
    ELSE IF \/ StartsWith(result.text, "Rotas disponiveis em: ")
            \/ StartsWith(result.text, "Rotas de Nivel Superior Disponiveis")
            \/ StartsWith(result.text, "Sub-Rotas para '")
    THEN "route_listing"
    ELSE IF \/ StartsWith(result.text, "Metadados da rota: ")
            \/ StartsWith(result.text, "Metadados da Rota '")
    THEN "route_metadata"
    ELSE "none"

\* the branch the priority chain gives for the content c
BranchDue(c) ==
    IF HasKey(c, "totalFacets") /\ IsList(Get0(c, "facets")) THEN "facet_values"
    ELSE IF IsList(Get0(c, "routes")) /\ Truthy(Get0(c, "routes")) THEN "route_listing"
    ELSE IF Truthy(Get0(c, "id")) \/ Truthy(Get0(c, "name")) THEN "route_metadata"
    ELSE "none"

\* C14: both listing tools classify by a priority chain: `totalFacets`
\* present with `facets` a list gives facet values, whatever else the content
\* has; otherwise a non-empty `routes` list gives a route listing, also with
\* `id` or `name` present; otherwise a truthy `id` or `name` gives route
\* metadata; one branch is taken for every content object.
C14_ClassificationIsPriorityChain ==
    \A b \in SuccessBodies :
        (/\ ListingReturnedAfter(b)
         /\ Truthy(b)
         /\ IsDict(b)
         /\ ~Truthy(Get0(b, "error"))
         /\ IsDict(ListingContent(b))
         /\ result.kind = "result") =>
            BranchShown = BranchDue(ListingContent(b))

\* a content with totalFacets, facets, routes, id and name is shown as facet
\* values
C14_FacetValuesComeFirst ==
    /\ ListingReturnedAfter(BodyMixed)
    /\ tool = "list_eia_v2_routes"
    /\ result.kind = "result"
    /\ BranchShown = "facet_values"
    /\ Contains(result.text, "RES")
    /\ ~Contains(result.text, "Sub")

-----------------------------------------------------------------------------
(* C15 *)

\* one of the four tools has returned or raised after a 2xx exchange whose
\* body parsed
EndedAfterParsedBody ==
    /\ pc = "returned"
    /\ tool \in {"get_eia_v2_route_data_enhanced", "list_eia_v2_routes_enhanced",
                 "list_eia_v2_routes", "get_eia_v2_series_id_data"}
    /\ last.kind = "return"
    /\ last.outcome.kind = "response"
    /\ ~Failing(last.outcome)

\* C15: for every JSON value the upstream returns with a 2xx status (an
\* object, an empty object, a list, null, an object whose `routes`, `facets`,
\* `frequency` or `data` hold values that are no objects) each of the four
\* tools returns a CallToolResult and does not raise.
C15_ToolsNeverRaise ==
    EndedAfterParsedBody => result.kind = "result"

\* get_eia_v2_route_data_enhanced raises AttributeError on the body
\* ["unexpected"]
C15_ListBodyRaises ==
    /\ EndedAfterParsedBody
    /\ tool = "get_eia_v2_route_data_enhanced"
    /\ last.outcome = Response(200, PyList(<<PyStr("unexpected")>>))
    /\ result.kind = "raised"
    /\ result.text = "AttributeError"

-----------------------------------------------------------------------------
(* C16 *)

\* the number a string of decimal digits denotes
RECURSIVE DecimalValue(_)
DecimalValue(s) ==
    IF s = "" THEN 0
    ELSE 10 * DecimalValue(SubSeq(s, 1, Len(s) - 1))
         + (CHOOSE d \in 0..9 : ToString(d) = SubSeq(s, Len(s), Len(s)))

IsNumericString(v) ==
    /\ IsStr(v)
    /\ v.s # ""
    /\ \A i \in 1..Len(v.s) : \E d \in 0..9 : ToString(d) = Char(v.s, i)

\* get_eia_v2_route_data_enhanced has ended after a parsed 2xx body whose
\* content holds a non-empty list of rows
RouteDataEndedWithRows ==
    /\ pc = "returned"
    /\ tool = "get_eia_v2_route_data_enhanced"
    /\ last.kind = "return"
    /\ ~Failing(last.outcome)
    /\ IsDict(last.value)
    /\ IsDict(Get(last.value, "response", last.value))
    /\ LET rows == Get0(Get(last.value, "response", last.value), "data")
       IN  IsList(rows) /\ rows.l # <<>> /\ AllDicts(rows.l)

\* the total the header is to show for the content c
TotalDue(c) ==
    IF ~HasKey(c, "total") THEN Len(Item(c, "data").l)
    ELSE IF IsStr(Item(c, "total")) THEN DecimalValue(Item(c, "total").s)
    ELSE Item(c, "total").n

\* C16: the total record count get_eia_v2_route_data_enhanced uses is the
\* body's `total` as an integer, also when the upstream sends it as a numeric
\* string, and the number of rows when `total` is absent; the tool then
\* returns the formatted table and does not raise.
C16_TotalIsCoercedToInteger ==
    LET c == Get(last.value, "response", last.value)
    IN  (/\ RouteDataEndedWithRows
         /\ HasKey(c, "total") => IsInt(Item(c, "total")) \/ IsNumericString(Item(c, "total")))
        => /\ result.kind = "result"
           /\ ~result.is_error
           /\ ("Total de registros disponiveis: " \o FormatComma(TotalDue(c)))
                  \in LinesOf(result.text)

\* with the total "2" the tool raises ValueError
C16_StringTotalRaises ==
    /\ RouteDataEndedWithRows
    /\ last.value = BodyDataStringTotal
    /\ result.kind = "raised"
    /\ result.text = "ValueError"

-----------------------------------------------------------------------------
(* C17 *)

\* the number of data rows in a rendered table: the lines that open with "| ",
\* less the header line
RenderedRows(text) ==
    LET opens == {p \in 1..(Len(text) - 1) :
                     /\ SubSeq(text, p, p + 1) = "| "
                     /\ (p = 1 \/ Char(text, p - 1) = "\n")}
    IN  Max(Cardinality(opens) - 1, 0)

\* the last line of the text
LastLine(text) ==
    LET breaks == {i \in 1..Len(text) : Char(text, i) = "\n"}
        from == IF breaks = {} THEN 1
                ELSE (CHOOSE i \in breaks : \A j \in breaks : j <= i) + 1
    IN  SubSeq(text, from, Len(text))

\* one of the two data tools has returned a table for the rows of a parsed
\* 2xx body
TableReturned ==
    /\ pc = "returned"
    /\ tool \in {"get_eia_v2_route_data_enhanced", "get_eia_v2_series_id_data"}
    /\ last.kind = "return"
    /\ ~Failing(last.outcome)
    /\ IsDict(last.value)
    /\ IsDict(ContentTaken(last.value))
    /\ IsList(Get0(ContentTaken(last.value), "data"))
    /\ Get0(ContentTaken(last.value), "data").l # <<>>
    /\ result.kind = "result"
    /\ ~result.is_error

\* the rows the upstream returned
RowsReturned == Len(Get0(ContentTaken(last.value), "data").l)

\* C17: in get_eia_v2_route_data_enhanced and get_eia_v2_series_id_data the
\* rendered table holds at most 100 data rows, and whenever the upstream
\* returned more rows than are rendered the text ends with a truncation
\* notice.
C17_TableIsCappedWithNotice ==
    TableReturned =>
        /\ RenderedRows(result.text) <= 100
        /\ RowsReturned > RenderedRows(result.text)
               => StartsWith(LastLine(result.text), "... (mostrando primeiras ")

\* get_eia_v2_series_id_data renders all 101 rows
C17_SeriesRendersEveryRow ==
    /\ TableReturned
    /\ tool = "get_eia_v2_series_id_data"
    /\ last.value = BodyManyRows
    /\ RenderedRows(result.text) = 101

-----------------------------------------------------------------------------
(* C18 *)

\* the tools the statement names
ReportingTools ==
    {"get_eia_v2_route_data_enhanced", "list_eia_v2_routes_enhanced", "list_eia_v2_routes",
     "get_eia_v2_series_id_data", "test_eia_connection"}

\* the query parameters of the request without the credential, as a query
\* string
RedactedQuery(req) == urlencode(PyDict(WithoutKey(req.params.d, "api_key")))

\* the step in which a tool takes the outcome of a failed exchange and returns
\* a result with is_error true
ReportsFailedCall ==
    /\ pc = "resuming"
    /\ tool \in ReportingTools
    /\ last.kind = "return"
    /\ last.outcome # NoOutcome
    /\ Failing(last.outcome)
    /\ pc' = "returned"
    /\ result'.kind = "result"
    /\ result'.is_error

\* C18: every result with is_error true that one of the five tools returns
\* after a failed upstream call contains, in its text, the route path that
\* failed and a rendering of the query parameters without the credential.
C18_FailureNamesPathAndQuery ==
    [][ReportsFailedCall =>
           /\ Contains(result'.text, Strip(TransportPath, {"/"}))
           /\ Contains(result'.text, RedactedQuery(request))]_vars

\* get_eia_v2_route_data_enhanced reports a failed call without the query
\* parameters it sent
C18_RouteDataFailureWithoutQuery ==
    /\ pc = "returned"
    /\ tool = "get_eia_v2_route_data_enhanced"
    /\ last.kind = "return"
    /\ last.outcome = Response(500, ErrorWithMessage)
    /\ result.kind = "result"
    /\ result.is_error
    /\ Contains(result.text, Strip(TransportPath, {"/"}))
    /\ ~Contains(result.text, "length=")

-----------------------------------------------------------------------------
(* C19 *)

\* get_eia_v2_route_data_enhanced or get_eia_v2_series_id_data awaits the
\* answer to the request it built from its arguments
DataToolAwaiting ==
    /\ pc = "awaiting"
    /\ tool \in {"get_eia_v2_route_data_enhanced", "get_eia_v2_series_id_data"}

\* C19: the parameters of get_eia_v2_route_data_enhanced and
\* get_eia_v2_series_id_data hold both `sort[0][column]` and
\* `sort[0][direction]` when sort_column and sort_direction are both
\* non-empty, and neither key when one of them is absent or empty; never
\* exactly one of the two.
C19_SortKeysComeTogether ==
    DataToolAwaiting =>
        LET both == /\ args.sort_column \notin {PyNone, PyStr("")}
                    /\ args.sort_direction \notin {PyNone, PyStr("")}
        IN  /\ HasKey(request.params, "sort[0][column]") <=> both
            /\ HasKey(request.params, "sort[0][direction]") <=> both
            /\ both => /\ Item(request.params, "sort[0][column]") = args.sort_column
                       /\ Item(request.params, "sort[0][direction]") = args.sort_direction

\* a request of get_eia_v2_route_data_enhanced sorted by period, descending
C19_SortedRequestSent ==
    /\ DataToolAwaiting
    /\ tool = "get_eia_v2_route_data_enhanced"
    /\ args.sort_column = PyStr("period")
    /\ args.sort_direction = PyStr("desc")
    /\ HasKey(request.params, "sort[0][column]")
    /\ HasKey(request.params, "sort[0][direction]")

-----------------------------------------------------------------------------
(* C20 *)

\* the keys of the parameters that name data elements
DataKeys(params) ==
    {params.d[i][1] : i \in {j \in 1..Len(params.d) :
                                \/ params.d[j][1] = "data"
                                \/ StartsWith(params.d[j][1], "data[")}}

\* C20: for every request whose data_elements is absent or an empty
\* sequence, the parameters get_eia_v2_route_data_enhanced and
\* get_eia_v2_series_id_data pass to the transport hold no key `data` and no
\* key that begins with `data[`.
C20_NoDataKeyWithoutElements ==
    (DataToolAwaiting /\ args.data_elements \in {PyNone, PyList(<<>>)})
        => DataKeys(request.params) = {}

\* get_eia_v2_route_data_enhanced sends a request for an empty list of data
\* elements, with its length and offset and nothing about data
C20_EmptyElementsRequestSent ==
    /\ DataToolAwaiting
    /\ tool = "get_eia_v2_route_data_enhanced"
    /\ args.data_elements = PyList(<<>>)
    /\ HasKey(request.params, "length")
    /\ DataKeys(request.params) = {}

-----------------------------------------------------------------------------
(* C21 *)

\* get_eia_v2_route_data_enhanced awaits the answer to its request
RouteDataAwaiting ==
    /\ pc = "awaiting"
    /\ tool = "get_eia_v2_route_data_enhanced"

\* C21: for every requested length and offset, the `length` parameter that
\* get_eia_v2_route_data_enhanced sends is at most 5000, and is the requested
\* length when that is at most 5000; the `offset` parameter sent is never
\* negative.
C21_LengthCappedOffsetNotNegative ==
    RouteDataAwaiting =>
        /\ Item(request.params, "length").n <= 5000
        /\ args.length <= 5000 => Item(request.params, "length").n = args.length
        /\ Item(request.params, "offset").n >= 0

\* a request for 6000 rows is sent with length 5000
C21_LengthOverCapSent ==
    /\ RouteDataAwaiting
    /\ args.length = 6000
    /\ Item(request.params, "length") = PyInt(5000)

-----------------------------------------------------------------------------
(* C22 *)

\* the four routes find_wti_oil_data visits before its data request
WtiOrder ==
    <<"petroleum", "petroleum/pri", "petroleum/pri/spt", "petroleum/pri/spt/facet/product">>

\* the transport calls made so far are a prefix of the fixed order, the fifth
\* being the data request
WtiCallsInOrder ==
    tool = "find_wti_oil_data" =>
        /\ Len(calls) <= 5
        /\ \A i \in 1..Len(calls) :
              IF i <= 4 THEN calls[i] = WtiOrder[i] ELSE EndsWith(calls[i], "/data")

\* what make_eia_api_request handed back lets the step go on: a non-empty
\* mapping without a truthy `error`
WtiStepWentWell ==
    /\ last.kind = "return"
    /\ IsDict(last.value)
    /\ last.value.d # <<>>
    /\ ~Truthy(Get0(last.value, "error"))

\* the step failed by the tool's own test, `not r or r.get("error")`
WtiStepFailed ==
    /\ last.kind = "return"
    /\ \/ ~Truthy(last.value)
       \/ IsDict(last.value) /\ Truthy(Get0(last.value, "error"))

\* a further transport call is issued in this step
WtiIssuesNextCall ==
    /\ tool = "find_wti_oil_data"
    /\ calls # <<>>
    /\ Len(calls') = Len(calls) + 1

\* C22: in every execution of find_wti_oil_data the transport calls happen one
\* after the other in the order petroleum, petroleum/pri, petroleum/pri/spt,
\* petroleum/pri/spt/facet/product, then the data request; each call is
\* issued only after the earlier call returned a non-error response (the data
\* request only with a WTI product id found); at the first failing step the
\* tool returns is_error true and issues no further call, so that at most
\* five calls are made.
C22_WtiStepsInOrderStopAtFailure ==
    [][/\ WtiCallsInOrder'
       /\ WtiIssuesNextCall =>
             /\ pc = "resuming"
             /\ WtiStepWentWell
             /\ Len(calls') = 5 => Truthy(saved'.wti_product_id)
       /\ (tool = "find_wti_oil_data" /\ pc = "resuming" /\ WtiStepFailed) =>
             /\ pc' = "returned"
             /\ calls' = calls
             /\ result'.kind = "result"
             /\ result'.is_error]_vars

\* the order of the calls and the condition for each further call, without
\* what the tool does at a failing step
C22_WtiCallsOrdered ==
    [][/\ WtiCallsInOrder'
       /\ WtiIssuesNextCall =>
             /\ pc = "resuming"
             /\ WtiStepWentWell
             /\ Len(calls') = 5 => Truthy(saved'.wti_product_id)
       /\ (tool = "find_wti_oil_data" /\ pc = "resuming" /\ WtiStepFailed) =>
             calls' = calls]_vars

\* the first call came back with the body null and the tool raised
C22_NullBodyRaises ==
    /\ pc = "returned"
    /\ tool = "find_wti_oil_data"
    /\ calls = <<"petroleum">>
    /\ last.kind = "return"
    /\ last.outcome = Response(200, PyNone)
    /\ result.kind = "raised"
    /\ result.text = "AttributeError"

\* all five calls were made
C22_FiveCallsMade ==
    /\ tool = "find_wti_oil_data"
    /\ Len(calls) = 5
    /\ pc = "returned"
    /\ result.kind = "result"
    /\ ~result.is_error

-----------------------------------------------------------------------------
(* C23 *)

\* the tools that call make_eia_api_request
UpstreamTools ==
    {"test_eia_connection", "get_eia_v2_route_data_enhanced", "list_eia_v2_routes_enhanced",
     "find_wti_oil_data", "get_eia_v2_series_id_data", "list_eia_v2_routes"}

\* make_eia_api_request has returned a failure to the running tool: a mapping
\* with a truthy `error`
FailureReturned ==
    /\ pc = "resuming"
    /\ tool \in UpstreamTools
    /\ last.kind = "return"
    /\ IsDict(last.value)
    /\ Truthy(Get0(last.value, "error"))

\* some line of the text opens with the prefix
LineOpensWith(text, prefix) ==
    \E p \in 1..(Len(text) - Len(prefix) + 1) :
        /\ SubSeq(text, p, p + Len(prefix) - 1) = prefix
        /\ (p = 1 \/ Char(text, p - 1) = "\n")

\* the text shows a table, a listing, or the report of an empty answer
ShowsTableOrListing(text) ==
    \/ LineOpensWith(text, "| ")
    \/ LineOpensWith(text, "  - ID")
    \/ LineOpensWith(text, "Valores disponiveis para o facet")
    \/ LineOpensWith(text, "Rotas disponiveis em: ")
    \/ LineOpensWith(text, "Rotas de Nivel Superior Disponiveis")
    \/ LineOpensWith(text, "Sub-Rotas para '")
    \/ LineOpensWith(text, "Metadados da rota: ")
    \/ LineOpensWith(text, "Metadados da Rota '")
    \/ LineOpensWith(text, "Nenhum dado encontrado")

\* C23: for every tool that calls upstream, whenever make_eia_api_request
\* returns a failure (a mapping with a truthy `error`), the tool returns a
\* result with is_error true that holds no rendered table or listing; a
\* transport failure is never reported as a success or as an empty answer.
C23_FailureIsReportedAsError ==
    [][FailureReturned =>
           /\ pc' = "returned"
           /\ result'.kind = "result"
           /\ result'.is_error
           /\ ~ShowsTableOrListing(result'.text)]_vars

\* list_eia_v2_routes, which has no test of `error` of its own, has returned
\* is_error true for the failure of an HTTP 500
C23_RoutesReportsHttpFailure ==
    /\ pc = "returned"
    /\ tool = "list_eia_v2_routes"
    /\ last.kind = "return"
    /\ last.outcome = Response(500, ErrorWithMessage)
    /\ Get0(last.value, "error") = PyStr("HTTPStatusError: 500")
    /\ result.kind = "result"
    /\ result.is_error
    /\ ~ShowsTableOrListing(result.text)

-----------------------------------------------------------------------------
(* C24 *)

\* find_wti_oil_data has ended
WtiEnded ==
    /\ pc = "returned"
    /\ tool = "find_wti_oil_data"

\* C24: for every transport result at every step of find_wti_oil_data, among
\* them a 2xx body that is null or an empty object and route metadata whose
\* `facets` or `data` entry is missing or is a list, the tool returns a
\* CallToolResult and does not raise.
C24_WtiAlwaysReturns ==
    WtiEnded => result.kind = "result"

\* the answer to the third call was null and the tool raised
C24_NullMetadataRaises ==
    /\ WtiEnded
    /\ Len(calls) = 3
    /\ last.kind = "return"
    /\ last.value = PyNone
    /\ result.kind = "raised"
    /\ result.text = "AttributeError"

\* the route metadata held `data` as a list and the tool raised once the WTI
\* product was found
C24_DataListRaises ==
    /\ WtiEnded
    /\ Len(calls) = 4
    /\ saved.spt_data = Get0(BodySptDataList, "response")
    /\ last.value = BodyFacetValues
    /\ result.kind = "raised"
    /\ result.text = "AttributeError"

-----------------------------------------------------------------------------
(* C25 *)

\* get_eia_v2_route_data_enhanced has returned a table whose header holds the
\* remaining-records line: the rows returned are fewer than the total
RemainingLinePrinted ==
    /\ RouteDataEndedWithRows
    /\ result.kind = "result"
    /\ LineOpensWith(result.text, "Registros restantes: ")

\* total - (offset + returned rows), from the body and the caller's offset
RemainingDue ==
    LET c == Get(last.value, "response", last.value)
    IN  TotalDue(c) - (args.offset + Len(Item(c, "data").l))

\* C25: whenever get_eia_v2_route_data_enhanced prints the remaining-records
\* line, the value it prints, total - (offset + returned rows), is not
\* negative, for every offset the caller gives and every total the upstream
\* sends.
C25_RemainingIsNotNegative ==
    RemainingLinePrinted =>
        /\ LineOpensWith(result.text, "Registros restantes: " \o FormatComma(RemainingDue))
        /\ RemainingDue >= 0

\* with offset 2, two rows returned and a total of 3 the line reads -1
C25_RemainingBelowZero ==
    /\ RemainingLinePrinted
    /\ args.offset = 2
    /\ last.value = BodyData
    /\ LineOpensWith(result.text, "Registros restantes: -1")

====
